---- MODULE Spec2Model ----
(***************************************************************************)
(* LanAudit serial-console fingerprinting engine.                          *)
(*                                                                         *)
(* Two state machines share this module:                                   *)
(*   SpecProbe   - fingerprint.MaybeProbe run against a WriterReader        *)
(*                 (internal/console/fingerprint/engine.go)                 *)
(*   SpecSession - console.Session: the background reader, the callers of   *)
(*                 Write / SetDTR / SetRTS / SendBreak / ReadUntil / Close   *)
(*                 and the consumer of ReadChan                             *)
(*                 (internal/console/session.go)                            *)
(*                                                                         *)
(* Text is a sequence of one-character strings; the bytes TLA+ strings      *)
(* cannot hold are tokens: "NUL", "ESC", "VT".    Probabilities are integer   *)
(* hundredths (0.55 is 55): every sum the scorer can form compares with     *)
(* 0.55 and with 1 exactly as its float64 value does.                       *)
(***************************************************************************)
EXTENDS Integers, Sequences, FiniteSets, TLC

\* ------------------------------------------------------------------ text

Lower == {"a","b","c","d","e","f","g","h","i","j","k","l","m",
          "n","o","p","q","r","s","t","u","v","w","x","y","z"}
Upper == {"A","B","C","D","E","F","G","H","I","J","K","L","M",
          "N","O","P","Q","R","S","T","U","V","W","X","Y","Z"}
Digit == {"0","1","2","3","4","5","6","7","8","9"}
\* \w and \s of Go's regexp (RE2) syntax
Word  == Lower \cup Upper \cup Digit \cup {"_"}
Space == {" ", "\t", "\n", "\r", "\f"}
\* the cutset of strings.TrimSpace (ASCII part)
TrimSet == {" ", "\t", "\n", "\r", "\f", "VT"}

RECURSIVE TrimLeft(_)
TrimLeft(s) ==
    IF s # <<>> /\ Head(s) \in TrimSet THEN TrimLeft(Tail(s)) ELSE s

RECURSIVE TrimRight(_)
TrimRight(s) ==
    IF s # <<>> /\ s[Len(s)] \in TrimSet
    THEN TrimRight(SubSeq(s, 1, Len(s) - 1)) ELSE s

TrimSpace(s) == TrimRight(TrimLeft(s))

HasSuffix(s, t) ==
    /\ Len(t) <= Len(s)
    /\ SubSeq(s, Len(s) - Len(t) + 1, Len(s)) = t

ToLower(s) ==
    LET low(c) == CASE c = "A" -> "a" [] c = "B" -> "b" [] c = "C" -> "c"
                    [] c = "D" -> "d" [] c = "E" -> "e" [] c = "F" -> "f"
                    [] c = "G" -> "g" [] c = "H" -> "h" [] c = "I" -> "i"
                    [] c = "J" -> "j" [] c = "K" -> "k" [] c = "L" -> "l"
                    [] c = "M" -> "m" [] c = "N" -> "n" [] c = "O" -> "o"
                    [] c = "P" -> "p" [] c = "Q" -> "q" [] c = "R" -> "r"
                    [] c = "S" -> "s" [] c = "T" -> "t" [] c = "U" -> "u"
                    [] c = "V" -> "v" [] c = "W" -> "w" [] c = "X" -> "x"
                    [] c = "Y" -> "y" [] c = "Z" -> "z" [] OTHER -> c
    IN  [k \in 1..Len(s) |-> low(s[k])]

Contains(s, t) ==
    \E k \in 0..(Len(s) - Len(t)) : SubSeq(s, k + 1, k + Len(t)) = t

\* ----------------------------------------------------------------- regexp
\* A regular expression is a tree; Ends(r, s, i) is the set of positions
\* at which a match of r that starts at position i of s can end.

Cls(S)   == [t |-> "cls", set |-> S, neg |-> FALSE]
NotIn(S) == [t |-> "cls", set |-> S, neg |-> TRUE]
Dot      == NotIn({"\n"})
Ch(c)    == Cls({c})
Cat(rs)  == [t |-> "cat", rs |-> rs]
Alt(rs)  == [t |-> "alt", rs |-> rs]
Star(r)  == [t |-> "star", r |-> r]
Plus(r)  == [t |-> "plus", r |-> r]
Opt(r)   == [t |-> "opt", r |-> r]
\* a literal, and a literal under the (?i) flag
Lit(str)  == [t |-> "lit", str |-> str]
LitI(str) == [t |-> "liti", str |-> ToLower(str)]
\* ^ and $ under the (?m) flag
Bol      == [t |-> "bol"]
Eol      == [t |-> "eol"]
\* ^ and $ without it, and \b
Bot      == [t |-> "bot"]
Eot      == [t |-> "eot"]
Wb       == [t |-> "wb"]

RECURSIVE Ends(_, _, _)
RECURSIVE EndsCat(_, _, _, _)
RECURSIVE EndsStar(_, _, _, _)

Ends(r, s, i) ==
    CASE r.t = "cls"  -> IF i <= Len(s) /\ ((s[i] \in r.set) # r.neg)
                         THEN {i + 1} ELSE {}
      [] r.t = "lit"  -> IF /\ i + Len(r.str) - 1 <= Len(s)
                            /\ SubSeq(s, i, i + Len(r.str) - 1) = r.str
                         THEN {i + Len(r.str)} ELSE {}
      [] r.t = "liti" -> IF /\ i + Len(r.str) - 1 <= Len(s)
                            /\ ToLower(SubSeq(s, i, i + Len(r.str) - 1)) = r.str
                         THEN {i + Len(r.str)} ELSE {}
      [] r.t = "bol"  -> IF i = 1 \/ s[i - 1] = "\n" THEN {i} ELSE {}
      [] r.t = "eol"  -> IF i = Len(s) + 1 \/ s[i] = "\n" THEN {i} ELSE {}
      [] r.t = "bot"  -> IF i = 1 THEN {i} ELSE {}
      [] r.t = "eot"  -> IF i = Len(s) + 1 THEN {i} ELSE {}
      [] r.t = "wb"   -> IF (i > 1 /\ s[i - 1] \in Word) # (i <= Len(s) /\ s[i] \in Word)
                         THEN {i} ELSE {}
      [] r.t = "cat"  -> EndsCat(r.rs, 1, s, {i})
      [] r.t = "alt"  -> UNION {Ends(r.rs[k], s, i) : k \in 1..Len(r.rs)}
      [] r.t = "opt"  -> {i} \cup Ends(r.r, s, i)
      [] r.t = "star" -> EndsStar(r.r, s, {i}, {i})
      [] r.t = "plus" -> UNION {EndsStar(r.r, s, {j}, {j}) : j \in Ends(r.r, s, i)}

EndsCat(rs, k, s, from) ==
    IF k > Len(rs) THEN from
    ELSE EndsCat(rs, k + 1, s, UNION {Ends(rs[k], s, i) : i \in from})

EndsStar(r, s, seen, frontier) ==
    LET next == (UNION {Ends(r, s, i) : i \in frontier}) \ seen
    IN  IF next = {} THEN seen ELSE EndsStar(r, s, seen \cup next, next)

\* (*regexp.Regexp).MatchString: an unanchored search
MatchString(re, s) == \E i \in 1..(Len(s) + 1) : Ends(re, s, i) # {}

\* ------------------------------------------------------------ safe probes

NameCh == Lower \cup Upper \cup Digit \cup {".", "_", "-"}

guardCisco ==
    Cat(<<Bol, Plus(Cls(NameCh)),
          Opt(Cat(<<Ch("("), Lit(<<"c","o","n","f","i","g">>),
                    Star(NotIn({")"})), Ch(")")>>)),
          Cls({"#", ">"}), Opt(Ch(" ")), Eol>>)

guardMikroTik ==
    Cat(<<Bol, Ch("["), Plus(NotIn({"]"})), Ch("]"), Opt(Cls(Space)),
          Ch(">"), Opt(Ch(" ")), Eol>>)

guardLinuxShell == Cat(<<Cls({"$", "#"}), Opt(Ch(" ")), Eol>>)

guardJunos ==
    Cat(<<Bol, Plus(Cls(Word \cup {"-"})), Ch("@"),
          Plus(Cls(Word \cup {"-", "."})), Cls({">", "#"}), Opt(Ch(" ")), Eol>>)

guardHuawei ==
    Cat(<<Bol,
          Alt(<<Cat(<<Ch("<"), Cls({"H", "h"}), Opt(Cls({"P", "p", "E", "e"})),
                      Star(NotIn({">"})), Ch(">")>>),
                Cat(<<Ch("["), Cls({"H", "h"}), Star(Dot), Ch("]")>>)>>),
          Eol>>)

guardComware ==
    Cat(<<Bol, Cls({"<", "["}), Lit(<<"H","P">>), Opt(Ch("E")), Star(Dot),
          Cls({">", "]"}), Eol>>)

guardVyOS ==
    Cat(<<Bol, Lit(<<"v","y","o","s","@">>), Star(Dot), Cls({"$", "#"}),
          Opt(Ch(" ")), Eol>>)

guardFGT ==
    Cat(<<Bol, Lit(<<"F","G","T">>), Star(Cls(Word)), Opt(Cls(Space)),
          Cls({"#", ">"}), Opt(Ch(" ")), Eol>>)

guardPaloAlto ==
    Cat(<<Bol, Plus(Cls(Word \cup {"-"})), Lit(<<"@","P","A","-">>),
          Plus(Cls(Word)), Cls({">", "#"}), Opt(Ch(" ")), Eol>>)

\* The Command strings of the catalogue
cmdShowVersion ==
    <<"s","h","o","w"," ","v","e","r","s","i","o","n">>
cmdResourcePrint ==
    <<"/","s","y","s","t","e","m"," ","r","e","s","o","u","r","c","e"," ","p","r","i","n","t">>
cmdUname ==
    <<"u","n","a","m","e"," ","-","a">>
cmdGetSystemStatus ==
    <<"g","e","t"," ","s","y","s","t","e","m"," ","s","t","a","t","u","s">>
cmdShowSystemInfo ==
    <<"s","h","o","w"," ","s","y","s","t","e","m"," ","i","n","f","o">>
cmdDisplayVersion ==
    <<"d","i","s","p","l","a","y"," ","v","e","r","s","i","o","n">>
cmdOpenwrtRelease ==
    <<"c","a","t"," ","/","e","t","c","/","o","p","e","n","w","r","t","_","r","e","l","e","a","s","e"," ","|","|"," ","u","n","a","m","e"," ","-","a">>

\* A SafeProbe: Name, Command, Guard, TimeoutMs.  Expect and Scrape are
\* applied to the probe output alone; an output is modelled by what they
\* find in it (see ProbeOutputs).
Probe(name, cmd, guard, timeoutMs) ==
    [Name |-> name, Command |-> cmd, Guard |-> guard, TimeoutMs |-> timeoutMs]

\* a nil *SafeProbe
NilProbe == "nil"

\* the keys of the safeProbes map, "<vendor>:<os>"
ProbeKeys == {
    "Cisco:IOS", "Cisco:IOS-XE", "Cisco:NX-OS",
    "Cisco:IOS-XR", "Cisco:ASA", "Juniper:JUNOS",
    "Aruba:AOS-CX", "Aruba:AOS-S", "MikroTik:RouterOS",
    "Ubiquiti:EdgeOS", "Linux/BusyBox:Linux", "Fortinet:FortiOS",
    "PaloAlto:PAN-OS", "Huawei:VRP", "HPE:Comware",
    "Dell:OS10", "Brocade/Extreme:FastIron", "VyOS:VyOS",
    "OpenWrt:OpenWrt", "pfSense/OPNsense:pfSense"}

safeProbes == [key \in ProbeKeys |->
    CASE key = "Cisco:IOS" ->
        Probe("cisco_show_version", cmdShowVersion, guardCisco, 1200)
      [] key = "Cisco:IOS-XE" ->
        Probe("cisco_show_version", cmdShowVersion, guardCisco, 1200)
      [] key = "Cisco:NX-OS" ->
        Probe("cisco_show_version", cmdShowVersion, guardCisco, 1400)
      [] key = "Cisco:IOS-XR" ->
        Probe("cisco_show_version", cmdShowVersion, guardCisco, 1500)
      [] key = "Cisco:ASA" ->
        Probe("cisco_show_version", cmdShowVersion, guardCisco, 1400)
      [] key = "Juniper:JUNOS" ->
        Probe("junos_show_version", cmdShowVersion, guardJunos, 1500)
      [] key = "Aruba:AOS-CX" ->
        Probe("aruba_show_version", cmdShowVersion, guardCisco, 1500)
      [] key = "Aruba:AOS-S" ->
        Probe("aruba_show_version", cmdShowVersion, guardCisco, 1500)
      [] key = "MikroTik:RouterOS" ->
        Probe("mikrotik_resource_print", cmdResourcePrint, guardMikroTik, 1200)
      [] key = "Ubiquiti:EdgeOS" ->
        Probe("linux_uname", cmdUname, guardLinuxShell, 1000)
      [] key = "Linux/BusyBox:Linux" ->
        Probe("linux_uname", cmdUname, guardLinuxShell, 1000)
      [] key = "Fortinet:FortiOS" ->
        Probe("fortigate_get_system_status", cmdGetSystemStatus, guardFGT, 1400)
      [] key = "PaloAlto:PAN-OS" ->
        Probe("paloalto_show_system_info", cmdShowSystemInfo, guardPaloAlto, 1400)
      [] key = "Huawei:VRP" ->
        Probe("huawei_display_version", cmdDisplayVersion, guardHuawei, 1800)
      [] key = "HPE:Comware" ->
        Probe("hpe_display_version", cmdDisplayVersion, guardComware, 1600)
      [] key = "Dell:OS10" ->
        Probe("dell_show_version", cmdShowVersion, guardCisco, 1600)
      [] key = "Brocade/Extreme:FastIron" ->
        Probe("brocade_show_version", cmdShowVersion, guardCisco, 1600)
      [] key = "VyOS:VyOS" ->
        Probe("vyos_show_version", cmdShowVersion, guardVyOS, 1400)
      [] key = "OpenWrt:OpenWrt" ->
        Probe("openwrt_release", cmdOpenwrtRelease, guardLinuxShell, 1200)
      [] key = "pfSense/OPNsense:pfSense" ->
        Probe("pfsense_uname", cmdUname, guardLinuxShell, 1200)]

safeProbeKey(vendor, os) == vendor \o ":" \o os

\* the pointer getSafeProbe returns is the key of the entry, or NilProbe
getSafeProbe(vendor, os) ==
    IF safeProbeKey(vendor, os) \in ProbeKeys
    THEN safeProbeKey(vendor, os) ELSE NilProbe


\* ----------------------------------------------------- signature registry

NotSpace == NotIn(Space)
PromptEnd(term) == Cat(<<Cls(term), Opt(Ch(" ")), Eol>>)

reCiscoIOS == guardCisco
reCiscoASA ==
    Cat(<<Bol, Lit(<<"c","i","s","c","o","a","s","a">>),
          Opt(Cat(<<Ch("("), Star(NotIn({")"})), Ch(")")>>)),
          PromptEnd({"#", ">"})>>)
reCiscoNXOS ==
    Cat(<<Bol, Alt(<<Lit(<<"N","e","x","u","s">>), Lit(<<"s","w","i","t","c","h">>)>>),
          PromptEnd({"#", ">"})>>)
reCiscoIOSXR ==
    Cat(<<Bol, Lit(<<"R","P","/">>), Plus(Cls(Digit)), Ch("/"), Plus(NotSpace),
          Ch(":"), Plus(NotSpace), PromptEnd({"#"})>>)
reJunos == guardJunos
reArubaCX ==
    Cat(<<Bol, Alt(<<LitI(<<"m","g","r">>), LitI(<<"a","d","m","i","n">>),
                     Plus(Cls(NameCh))>>),
          PromptEnd({"#"})>>)
reArubaAOSS ==
    Cat(<<Bol, Alt(<<Lit(<<"H","P">>), Lit(<<"A","r","u","b","a">>),
                     Lit(<<"P","r","o","C","u","r","v","e">>)>>),
          Star(Cls(Word \cup {"-"})), PromptEnd({">", "#"})>>)
reMikroTik == guardMikroTik
reEdgeOS ==
    Cat(<<Bol, Plus(Cls(Word \cup {"-"})), Ch("@"), Plus(Cls(Word \cup {"-", "."})),
          Opt(Lit(<<":","~">>)), PromptEnd({"$", "#"})>>)
reFortiGate == guardFGT
rePaloAlto == guardPaloAlto
reHuaweiVRP == guardHuawei
reComware == guardComware
reDell == Cat(<<Bol, Lit(<<"D","e","l","l">>), Star(Cls(Word)), PromptEnd({"#", ">"})>>)
reGenericShell == Cat(<<Bol, Star(Dot), PromptEnd({">", "#"})>>)
reFastIron ==
    Cat(<<Bol, Alt(<<Lit(<<"I","C","X">>), Lit(<<"B","R","-","C","D">>),
                     Lit(<<"F","a","s","t","I","r","o","n">>)>>),
          Star(Dot), PromptEnd({"#", ">"})>>)
reVyOS == guardVyOS
reOpenWrt ==
    Cat(<<Bol, Lit(<<"r","o","o","t","@","O","p","e","n","W","r","t",":","~","#">>), Eol>>)
rePfSense ==
    Cat(<<Bol, Lit(<<"r","o","o","t","@","p","f","S","e","n","s","e",":","~"," ","#">>), Eol>>)
reUBoot == Cat(<<Bol, Lit(<<"=",">">>), Opt(Ch(" ")), Eol>>)
reRommon ==
    Cat(<<Bol, Lit(<<"r","o","m","m","o","n"," ">>), Plus(Cls(Digit)),
          Lit(<<" ",">">>), Eol>>)
reShell == Cat(<<Bol, Star(Dot), PromptEnd({"$", "#"})>>)
reGenericHash == Cat(<<Bol, Star(Dot), PromptEnd({">", "#", "$"})>>)

Pat(label, regex) == [Label |-> label, Regex |-> regex]

\* A Signature.  PreLogin and Login hold the labels of their patterns: those
\* patterns are matched against the RX text, which enters the model as the
\* index of the first pattern of each list that fires (0: none fires).
\* Weight is in hundredths.
Sig(vendor, os, weight, pre, login, prompt) ==
    [Vendor |-> vendor, OS |-> os, Weight |-> weight, PreLogin |-> pre,
     Login |-> login, Prompt |-> prompt, SafeProbe |-> getSafeProbe(vendor, os)]

signatureRegistry == <<
    Sig("Cisco", "IOS", 5, <<"User Access Verification", "Cisco IOS banner">>,
        <<"Username prompt", "Password prompt">>,
        <<Pat("Cisco IOS prompt", reCiscoIOS)>>),
    Sig("Cisco", "IOS-XE", 5, <<"Cisco IOS-XE">>, <<"Username prompt">>,
        <<Pat("Cisco IOS prompt", reCiscoIOS)>>),
    Sig("Cisco", "NX-OS", 5, <<"Cisco Nexus">>, <<>>,
        <<Pat("NX-OS prompt", reCiscoNXOS)>>),
    Sig("Cisco", "IOS-XR", 5, <<"IOS XR">>, <<>>,
        <<Pat("IOS XR prompt", reCiscoIOSXR)>>),
    Sig("Cisco", "ASA", 5, <<"Cisco ASA">>, <<>>,
        <<Pat("ASA prompt", reCiscoASA)>>),
    Sig("Aruba", "AOS-CX", 5, <<"ArubaOS-CX">>, <<>>,
        <<Pat("Aruba CX prompt", reArubaCX)>>),
    Sig("Aruba", "AOS-S", 5, <<"ArubaOS-S">>, <<>>,
        <<Pat("Aruba AOS-S prompt", reArubaAOSS)>>),
    Sig("Juniper", "JUNOS", 5, <<"JUNOS", "Amnesiac">>, <<"login:">>,
        <<Pat("Junos prompt", reJunos)>>),
    Sig("MikroTik", "RouterOS", 5, <<"RouterOS">>, <<>>,
        <<Pat("MikroTik prompt", reMikroTik)>>),
    Sig("Ubiquiti", "EdgeOS", 5, <<"EdgeOS">>, <<>>,
        <<Pat("EdgeOS prompt", reEdgeOS)>>),
    Sig("Fortinet", "FortiOS", 5, <<"FortiGate">>, <<"FortiGate login">>,
        <<Pat("FortiGate prompt", reFortiGate)>>),
    Sig("PaloAlto", "PAN-OS", 5, <<"PA banner">>, <<>>,
        <<Pat("PAN-OS prompt", rePaloAlto)>>),
    Sig("Huawei", "VRP", 5, <<"Huawei VRP">>, <<>>,
        <<Pat("VRP prompt", reHuaweiVRP)>>),
    Sig("HPE", "Comware", 5, <<"Comware">>, <<>>,
        <<Pat("Comware prompt", reComware)>>),
    Sig("Dell", "OS10", 5, <<"Dell OS10">>, <<>>,
        <<Pat("Dell prompt", reDell), Pat("Generic shell", reGenericShell)>>),
    Sig("Brocade/Extreme", "FastIron", 5, <<"FastIron">>, <<>>,
        <<Pat("ICX prompt", reFastIron)>>),
    Sig("VyOS", "VyOS", 5, <<"VyOS login">>, <<>>,
        <<Pat("VyOS prompt", reVyOS)>>),
    Sig("OpenWrt", "OpenWrt", 5, <<"OpenWrt">>, <<>>,
        <<Pat("OpenWrt prompt", reOpenWrt)>>),
    Sig("pfSense/OPNsense", "pfSense", 5, <<"pfSense">>, <<>>,
        <<Pat("pfSense prompt", rePfSense)>>),
    Sig("Bootloader", "U-Boot", 10, <<"U-Boot">>, <<>>,
        <<Pat("U-Boot prompt", reUBoot)>>),
    Sig("Bootloader", "ROMMON", 10, <<"ROMMON", "System Bootstrap">>, <<>>,
        <<Pat("rommon prompt", reRommon)>>),
    Sig("Bootloader", "GRUB", 10, <<"GNU GRUB">>, <<>>, <<>>),
    Sig("Linux/BusyBox", "Linux", 5, <<"BusyBox", "Linux">>, <<>>,
        <<Pat("Shell prompt", reShell)>>) >>

\* the Regex fields of promptPatterns, in order
promptPatterns == <<
    reCiscoIOS, reCiscoASA, reCiscoNXOS, reCiscoIOSXR, reJunos, reArubaCX,
    reArubaAOSS, reMikroTik, reEdgeOS, reFortiGate, rePaloAlto, reHuaweiVRP,
    reComware, reFastIron, reVyOS, reOpenWrt, rePfSense, reGenericHash >>


\* ------------------------------------------------------ scorer, classifier

N == Len(signatureRegistry)

clamp01Open(v) == v

clamp01(v) == IF v < 0 THEN 0 ELSE IF v > 100 THEN 100 ELSE v

\* index of the first pattern of pats that matches text, 0 when none does
RECURSIVE FirstMatch(_, _, _)
FirstMatch(pats, text, k) ==
    IF k > Len(pats) THEN 0
    ELSE IF MatchString(pats[k].Regex, text) THEN k
    ELSE FirstMatch(pats, text, k + 1)

\* prompt lines fed to the engine
Prompts == {
    <<>>,
    <<"R","1","#">>,
    <<"R","1",">">>,
    <<"R","1","(","c","o","n","f","i","g",")","#">>,
    <<"R","1","(","c","o","n","f","i","g","-","i","f",")","#">>,
    <<"R","1","(","C","o","n","f","i","g",")","#">>,
    <<"c","i","s","c","o","a","s","a","(","c","o","n","f","i","g",")","#">>,
    <<"s","w","i","t","c","h","(","c","o","n","f","i","g",")","#">>,
    <<"[","a","d","m","i","n","@","M","i","k","r","o","T","i","k","]"," ",">">>,
    <<"u","s","e","r","@","h","o","s","t",">">>,
    <<"r","o","o","t","@","O","p","e","n","W","r","t",":","~","#">>,
    <<"v","y","o","s","@","v","y","o","s",":","~","$">>,
    <<"<","H","U","A","W","E","I",">">>,
    <<"F","G","T","6","0"," ","#">>,
    <<"a","d","m","i","n","@","P","A","-","2","2","0",">">>,
    <<"l","o","g","i","n",":">>,
    <<"=",">">> }

\* FirstMatch and matchPrompt on the lines of Prompts, computed once
FirstPromptMemo ==
    [p \in Prompts |->
        [k \in 1..N |-> FirstMatch(signatureRegistry[k].Prompt, p, 1)]]

\* index of the first Prompt pattern of signature k that matches prompt
FirstPrompt(k, prompt) ==
    IF prompt \in Prompts THEN FirstPromptMemo[prompt][k]
    ELSE FirstMatch(signatureRegistry[k].Prompt, prompt, 1)

ScoreSignatureEveryPattern(k, pre, login, prompt) ==
    LET sig      == signatureRegistry[k]
        prm      == FirstPrompt(k, prompt)
        score    == sig.Weight + (IF pre > 0 THEN 50 * Len(sig.PreLogin) ELSE 0)
                               + (IF login > 0 THEN 20 ELSE 0)
                               + (IF prm > 0 THEN 35 ELSE 0)
        evidence == (IF pre > 0 THEN <<"prelogin: " \o sig.PreLogin[pre]>> ELSE <<>>)
                 \o (IF login > 0 THEN <<"login: " \o sig.Login[login]>> ELSE <<>>)
                 \o (IF prm > 0 THEN <<"prompt: " \o sig.Prompt[prm].Label>> ELSE <<>>)
        matched  == pre > 0 \/ login > 0 \/ prm > 0
    IN  IF ~matched THEN <<>>
        ELSE << [Vendor |-> sig.Vendor, OS |-> sig.OS, Prob |-> clamp01(score),
                 Evidence |-> evidence, NextSafeProbe |-> sig.SafeProbe,
                 stage |-> "", Prompt |-> <<>>] >>

ScoreSignatureAlways(k, pre, login, prompt) ==
    LET sig      == signatureRegistry[k]
        prm      == FirstPrompt(k, prompt)
        score    == sig.Weight + (IF pre > 0 THEN 50 ELSE 0)
                               + (IF login > 0 THEN 20 ELSE 0)
                               + (IF prm > 0 THEN 35 ELSE 0)
        evidence == (IF pre > 0 THEN <<"prelogin: " \o sig.PreLogin[pre]>> ELSE <<>>)
                 \o (IF login > 0 THEN <<"login: " \o sig.Login[login]>> ELSE <<>>)
                 \o (IF prm > 0 THEN <<"prompt: " \o sig.Prompt[prm].Label>> ELSE <<>>)
        matched  == sig.Weight > 0
    IN  IF ~matched THEN <<>>
        ELSE << [Vendor |-> sig.Vendor, OS |-> sig.OS, Prob |-> clamp01(score),
                 Evidence |-> evidence, NextSafeProbe |-> sig.SafeProbe,
                 stage |-> "", Prompt |-> <<>>] >>

\* The loop body of GetCandidates for signature k: <<>> when nothing
\* matched, else the one Candidate.  pre and login are the indexes of the
\* first PreLogin / Login pattern that fires against rx (0: none).
ScoreSignaturePromptHeavy(k, pre, login, prompt) ==
    LET sig      == signatureRegistry[k]
        prm      == FirstPrompt(k, prompt)
        score    == sig.Weight + (IF pre > 0 THEN 50 ELSE 0)
                               + (IF login > 0 THEN 20 ELSE 0)
                               + (IF prm > 0 THEN 50 ELSE 0)
        evidence == (IF pre > 0 THEN <<"prelogin: " \o sig.PreLogin[pre]>> ELSE <<>>)
                 \o (IF login > 0 THEN <<"login: " \o sig.Login[login]>> ELSE <<>>)
                 \o (IF prm > 0 THEN <<"prompt: " \o sig.Prompt[prm].Label>> ELSE <<>>)
        matched  == pre > 0 \/ login > 0 \/ prm > 0
    IN  IF ~matched THEN <<>>
        ELSE << [Vendor |-> sig.Vendor, OS |-> sig.OS, Prob |-> clamp01(score),
                 Evidence |-> evidence, NextSafeProbe |-> sig.SafeProbe,
                 stage |-> "", Prompt |-> <<>>] >>

ScoreSignature(k, pre, login, prompt) ==
    LET sig      == signatureRegistry[k]
        prm      == FirstPrompt(k, prompt)
        score    == sig.Weight + (IF pre > 0 THEN 50 ELSE 0)
                               + (IF login > 0 THEN 20 ELSE 0)
                               + (IF prm > 0 THEN 35 ELSE 0)
        evidence == (IF pre > 0 THEN <<"prelogin: " \o sig.PreLogin[pre]>> ELSE <<>>)
                 \o (IF login > 0 THEN <<"login: " \o sig.Login[login]>> ELSE <<>>)
                 \o (IF prm > 0 THEN <<"prompt: " \o sig.Prompt[prm].Label>> ELSE <<>>)
        matched  == pre > 0 \/ login > 0 \/ prm > 0
    IN  IF ~matched THEN <<>>
        ELSE << [Vendor |-> sig.Vendor, OS |-> sig.OS, Prob |-> clamp01(score),
                 Evidence |-> evidence, NextSafeProbe |-> sig.SafeProbe,
                 stage |-> "", Prompt |-> <<>>] >>

\* fire = [pre |-> .., login |-> ..]: for every signature, the index of the
\* first PreLogin / Login pattern rx fires (0: none)
RECURSIVE GetCandidatesFrom(_, _, _)
GetCandidatesFrom(k, fire, prompt) ==
    IF k > N THEN <<>>
    ELSE ScoreSignature(k, fire.pre[k], fire.login[k], prompt)
         \o GetCandidatesFrom(k + 1, fire, prompt)

GetCandidates(fire, prompt) == GetCandidatesFrom(1, fire, prompt)

StagePreLogin == "prelogin"
StageLogin    == "login"
StagePrompt   == "prompt"
StageBoot     == "bootloader"
Stages == {StagePreLogin, StageLogin, StagePrompt, StageBoot}

matchPromptMemo ==
    [p \in Prompts |->
        \E k \in 1..Len(promptPatterns) : MatchString(promptPatterns[k], p)]

\* matchPrompt(promptLine) # nil
matchPrompt(promptLine) ==
    /\ promptLine # <<>>
    /\ IF promptLine \in Prompts THEN matchPromptMemo[promptLine]
       ELSE \E k \in 1..Len(promptPatterns) :
               MatchString(promptPatterns[k], promptLine)

DetectStagePromptFirst(boot, promptLine, loginLine) ==
    IF matchPrompt(promptLine) THEN StagePrompt
    ELSE IF boot THEN StageBoot
    ELSE IF loginLine THEN StageLogin
    ELSE StagePreLogin

\* boot: some bootPatterns entry matches rx; loginLine: some loginPatterns
\* entry matches one of the last four lines of rx
DetectStage(boot, promptLine, loginLine) ==
    IF boot THEN StageBoot
    ELSE IF matchPrompt(promptLine) THEN StagePrompt
    ELSE IF loginLine THEN StageLogin
    ELSE StagePreLogin

\* strings.TrimSpace on an evidence entry (a string)
RECURSIVE TrimString(_)
TrimString(v) ==
    IF v = "" THEN v
    ELSE IF SubSeq(v, 1, 1) \in {" ", "\t", "\n", "\r", "\f"}
         THEN TrimString(SubSeq(v, 2, Len(v)))
    ELSE IF SubSeq(v, Len(v), Len(v)) \in {" ", "\t", "\n", "\r", "\f"}
         THEN TrimString(SubSeq(v, 1, Len(v) - 1))
    ELSE v

\* dedupeStrings: every entry trimmed, the empty ones and every repetition
\* dropped
RECURSIVE dedupeStrings(_)
dedupeStrings(in) ==
    IF in = <<>> THEN <<>>
    ELSE LET init == dedupeStrings(SubSeq(in, 1, Len(in) - 1))
             v    == TrimString(in[Len(in)])
         IN  IF v = "" \/ \E k \in 1..Len(init) : init[k] = v
             THEN init ELSE Append(init, v)

\* byte order of the vendor strings of the registry
VendorRank(v) ==
    CASE v = "Aruba" -> 1 [] v = "Bootloader" -> 2 [] v = "Brocade/Extreme" -> 3
      [] v = "Cisco" -> 4 [] v = "Dell" -> 5 [] v = "Fortinet" -> 6
      [] v = "HPE" -> 7 [] v = "Huawei" -> 8 [] v = "Juniper" -> 9
      [] v = "Linux/BusyBox" -> 10 [] v = "MikroTik" -> 11 [] v = "OpenWrt" -> 12
      [] v = "PaloAlto" -> 13 [] v = "Ubiquiti" -> 14 [] v = "VyOS" -> 15
      [] v = "pfSense/OPNsense" -> 16

CandLessAscending(a, b) ==
    IF a.Prob = b.Prob THEN VendorRank(a.Vendor) < VendorRank(b.Vendor)
    ELSE a.Prob < b.Prob

\* the less function Analyze hands to sort.SliceStable
CandLess(a, b) ==
    IF a.Prob = b.Prob THEN VendorRank(a.Vendor) < VendorRank(b.Vendor)
    ELSE a.Prob > b.Prob

\* sort.SliceStable: a stable insertion of each element in turn
RECURSIVE InsertStable(_, _)
InsertStable(sorted, c) ==
    IF sorted = <<>> THEN <<c>>
    ELSE IF CandLess(c, sorted[Len(sorted)])
         THEN Append(InsertStable(SubSeq(sorted, 1, Len(sorted) - 1), c),
                     sorted[Len(sorted)])
         ELSE Append(sorted, c)

RECURSIVE SortStable(_)
SortStable(cs) ==
    IF cs = <<>> THEN <<>>
    ELSE InsertStable(SortStable(SubSeq(cs, 1, Len(cs) - 1)), cs[Len(cs)])

\* Analyze, with promptLine the trimmed lastPrompt (or, when that is empty,
\* the last non-empty line of the normalized rx)
Analyze(fire, boot, loginLine, promptLine) ==
    LET stage == DetectStage(boot, promptLine, loginLine)
        cs    == GetCandidates(fire, promptLine)
        set   == [k \in 1..Len(cs) |->
                     [cs[k] EXCEPT !.stage = stage, !.Prompt = promptLine,
                                   !.Evidence = dedupeStrings(cs[k].Evidence)]]
    IN  [stage |-> stage, scored |-> cs, candidates |-> SortStable(set)]

\* ------------------------------------------------------------------ rx text

\* the Regex fields of the PreLogin and Login patterns of signatureRegistry,
\* signature by signature (their Label fields are in signatureRegistry)
preLoginRegex == <<
    <<Lit(<<"U","s","e","r"," ","A","c","c","e","s","s"," ","V","e","r","i","f","i","c","a","t","i","o","n">>),
      Lit(<<"C","i","s","c","o"," ","I","O","S">>)>>,
    <<Cat(<<Lit(<<"I","O","S">>), Cls({"-", " "}), Lit(<<"X","E">>)>>)>>,
    <<Lit(<<"C","i","s","c","o"," ","N","e","x","u","s"," ","O","p","e","r","a","t","i","n","g"," ","S","y","s","t","e","m">>)>>,
    <<Lit(<<"I","O","S"," ","X","R">>)>>,
    <<Lit(<<"C","i","s","c","o"," ","A","d","a","p","t","i","v","e"," ","S","e","c","u","r","i","t","y"," ","A","p","p","l","i","a","n","c","e">>)>>,
    <<Lit(<<"A","r","u","b","a","O","S","-","C","X">>)>>,
    <<Alt(<<Lit(<<"A","r","u","b","a"," ","2","9","3","0","F">>), Lit(<<"P","r","o","C","u","r","v","e">>), Lit(<<"A","r","u","b","a","O","S","-","S">>)>>)>>,
    <<Lit(<<"J","U","N","O","S">>),
      Lit(<<"A","m","n","e","s","i","a","c">>)>>,
    <<Lit(<<"M","i","k","r","o","T","i","k"," ","R","o","u","t","e","r","O","S">>)>>,
    <<Lit(<<"W","e","l","c","o","m","e"," ","t","o"," ","E","d","g","e","O","S">>)>>,
    <<Lit(<<"F","o","r","t","i","G","a","t","e">>)>>,
    <<Cat(<<Lit(<<"P","A","-">>), Plus(Cls(Digit))>>)>>,
    <<Lit(<<"H","U","A","W","E","I">>)>>,
    <<Lit(<<"C","o","m","w","a","r","e">>)>>,
    <<Lit(<<"D","e","l","l"," ","E","M","C"," ","N","e","t","w","o","r","k","i","n","g"," ","O","S","1","0">>)>>,
    <<Lit(<<"F","a","s","t","I","r","o","n">>)>>,
    <<Lit(<<"v","y","o","s"," ","l","o","g","i","n",":">>)>>,
    <<Lit(<<"O","p","e","n","W","r","t">>)>>,
    <<Lit(<<"p","f","S","e","n","s","e">>)>>,
    <<Cat(<<Wb, Lit(<<"U","-","B","o","o","t">>), Wb>>)>>,
    <<Lit(<<"R","O","M","M","O","N">>),
      Lit(<<"S","y","s","t","e","m"," ","B","o","o","t","s","t","r","a","p">>)>>,
    <<Lit(<<"G","N","U"," ","G","R","U","B">>)>>,
    <<Lit(<<"B","u","s","y","B","o","x">>),
      Lit(<<"L","i","n","u","x"," ","v","e","r","s","i","o","n">>)>> >>

loginRegex == <<
    <<Cat(<<Bot, LitI(<<"u","s","e","r","n","a","m","e",":">>)>>),
      Cat(<<Bot, LitI(<<"p","a","s","s","w","o","r","d",":">>)>>)>>,
    <<Cat(<<Bot, LitI(<<"u","s","e","r","n","a","m","e",":">>)>>)>>,
    <<>>,
    <<>>,
    <<>>,
    <<>>,
    <<>>,
    <<Cat(<<Bot, LitI(<<"l","o","g","i","n",":">>)>>)>>,
    <<>>,
    <<>>,
    <<Cat(<<Lit(<<"F","o","r","t","i","G","a","t","e","-">>), Plus(Cls(Word)), Lit(<<" ","l","o","g","i","n",":">>)>>)>>,
    <<>>,
    <<>>,
    <<>>,
    <<>>,
    <<>>,
    <<>>,
    <<>>,
    <<>>,
    <<>>,
    <<>>,
    <<>>,
    <<>> >>

bootPatterns == <<
    Cat(<<Wb, LitI(<<"U","-","B","o","o","t">>), Wb>>),
    Cat(<<LitI(<<"r","o","m","m","o","n"," ">>), Plus(Cls(Digit)), Lit(<<" ",">">>)>>),
    LitI(<<"G","N","U"," ","G","R","U","B">>) >>

loginPatterns == <<
    Cat(<<Bot, Alt(<<LitI(<<"u","s","e","r","n","a","m","e">>), LitI(<<"u","s","e","r"," ","n","a","m","e">>),
                     LitI(<<"l","o","g","i","n">>), LitI(<<"p","a","s","s","w","o","r","d">>)>>),
          Ch(":"), Star(Cls(Space)), Eot>>),
    LitI(<<"a","m","n","e","s","i","a","c">>) >>

ansiRegexp ==
    Cat(<<Ch("ESC"), Ch("["), Star(Cls(Digit \cup {";"})), Cls(Lower \cup Upper)>>)

\* (*regexp.Regexp).ReplaceAllString(s, ""), from position i on: the leftmost
\* match is cut out and the search goes on behind it
RECURSIVE RemoveMatches(_, _, _)
RemoveMatches(re, s, i) ==
    IF i > Len(s) THEN <<>>
    ELSE LET ends == Ends(re, s, i) \ {i}
         IN  IF ends # {}
             THEN RemoveMatches(re, s, CHOOSE e \in ends : \A f \in ends : f <= e)
             ELSE <<s[i]>> \o RemoveMatches(re, s, i + 1)

\* strings.ReplaceAll(s, "\r\n", "\n")
RECURSIVE ReplaceCRLF(_)
ReplaceCRLF(s) ==
    IF s = <<>> THEN <<>>
    ELSE IF Len(s) >= 2 /\ s[1] = "\r" /\ s[2] = "\n"
         THEN <<"\n">> \o ReplaceCRLF(SubSeq(s, 3, Len(s)))
         ELSE <<Head(s)>> \o ReplaceCRLF(Tail(s))

Normalize(in) ==
    LET noAnsi == RemoveMatches(ansiRegexp, in, 1)
        noCRLF == ReplaceCRLF(noAnsi)
        noCR   == [k \in 1..Len(noCRLF) |-> IF noCRLF[k] = "\r" THEN "\n" ELSE noCRLF[k]]
    IN  SelectSeq(noCR, LAMBDA b : b # "NUL")

\* strings.Split(s, "\n")
RECURSIVE Split(_)
Split(s) ==
    IF \A k \in 1..Len(s) : s[k] # "\n" THEN <<s>>
    ELSE LET k == CHOOSE j \in 1..Len(s) : s[j] = "\n" /\ \A h \in 1..(j - 1) : s[h] # "\n"
         IN  <<SubSeq(s, 1, k - 1)>> \o Split(SubSeq(s, k + 1, Len(s)))

ExtractLastPromptLine(rx) ==
    LET lines == Split(rx)
        full  == {k \in 1..Len(lines) : TrimSpace(lines[k]) # <<>>}
    IN  IF full = {} THEN <<>>
        ELSE TrimSpace(lines[CHOOSE k \in full : \A j \in full : j <= k])

\* lineSplitRe.Split(rx, -1): the pieces between the runs of "\n", with an
\* empty piece in front of a leading run and behind a trailing one
lineSplit(rx) ==
    LET lines == Split(rx)
        keep  == {k \in 1..Len(lines) : k = 1 \/ k = Len(lines) \/ lines[k] # <<>>}
        nth(j) == CHOOSE k \in keep : Cardinality({h \in keep : h < k}) = j - 1
    IN  [j \in 1..Cardinality(keep) |-> lines[nth(j)]]

\* some bootPatterns entry matches rx
bootMatch(rx) == \E k \in 1..Len(bootPatterns) : MatchString(bootPatterns[k], rx)

\* some loginPatterns entry matches one of the last four lines of rx
loginMatch(rx) ==
    LET lines == lineSplit(rx)
    IN  \E i \in 1..Len(lines) :
            /\ i >= Len(lines) - 3
            /\ \E k \in 1..Len(loginPatterns) : MatchString(loginPatterns[k], lines[i])

\* index of the first regexp of res that matches text, 0 when none does
RECURSIVE FirstRegex(_, _, _)
FirstRegex(res, text, k) ==
    IF k > Len(res) THEN 0
    ELSE IF MatchString(res[k], text) THEN k
    ELSE FirstRegex(res, text, k + 1)

\* what the PreLogin and Login loops of GetCandidates find in rx
FireOf(rx) ==
    [pre   |-> [k \in 1..N |-> FirstRegex(preLoginRegex[k], rx, 1)],
     login |-> [k \in 1..N |-> FirstRegex(loginRegex[k], rx, 1)]]

\* -------------------------------------------------------------- MaybeProbe

VARIABLES
    cand,                    \* the Candidate handed to MaybeProbe
    allowProbeInConfigMode,  \* the caller's policy flag (Config.Console)
    sessNil,                 \* the WriterReader argument is nil
    sessCalls,               \* the calls MaybeProbe made on the WriterReader
    ret,                     \* what MaybeProbe returned
    ppc                      \* "ready" before the call, "done" after it

probeVars == <<cand, allowProbeInConfigMode, sessNil, sessCalls, ret, ppc>>

\* the state of a console Session
VARIABLES
    config,          \* SessionConfig
    mu,              \* the RWMutex: w is the writer holding it, r the readers
    ctxDone,         \* s.cancel() has been called
    port,            \* the serial.Port: open, closes (calls of Close), mode, dtr, rts
    wire,            \* what port.Write put on the wire, with the baud it went out at
    dtrState, rtsState,
    bytesRead, bytesWritten,
    logFile, logFileTxt,   \* the transcripts: present (non-nil), open, closes, data
    readChan,        \* the buffered chunks of s.readChan
    readChanClosed,  \* close(s.readChan) has been executed
    errChan,
    watchers,        \* the keys of s.watchers, one per ReadUntil call in progress
    wchan,           \* the buffered chunks of each watcher channel
    rpc,             \* where readLoop is
    rdata,           \* the chunk readLoop holds (<<>> when none)
    osReads,         \* history: the non-empty reads, in the order port.Read returned them
    got,             \* history: the chunks the consumer received from ReadChan()
    wgot,            \* history: the chunks each ReadUntil call received
    cpc,             \* where each caller is
    cop,             \* the operation each caller is in, with its arguments
    cret,            \* the last return of an operation: who, which, its results
    closeRets,       \* history: what the Close calls returned, in order
    ops              \* operations started so far

sessionVars == <<config, mu, ctxDone, port, wire, dtrState, rtsState, bytesRead,
                 bytesWritten, logFile, logFileTxt, readChan, readChanClosed,
                 errChan, watchers, wchan, rpc, rdata, osReads, got, wgot,
                 cpc, cop, cret, closeRets, ops>>

\* the state of one ProbePort call
VARIABLES
    probeConfig,     \* ProbeConfig: BaudRates, Timeout (ms), MaxBytes
    probeCtx,        \* ctx: done (cancelled now), atStart (cancelled before the call)
    bpc,             \* where ProbePort / probeSingleBaud is
    baudIdx,         \* index in BaudRates of the baud of the current iteration
    wakeIdx,         \* index of the next wake-up sequence
    serialPort,      \* the port probeSingleBaud opened: open, baud
    line,            \* what the device will still send during this attempt
    buffer,          \* buffer[:totalRead]
    pr,              \* the ProbeResult of probeSingleBaud
    probeResult,     \* the ProbeResult of ProbePort
    attempts,        \* history: the serial.Open calls: baud, opened, success
    probeWire        \* history: the wake-up sequences that went out, with their baud

baudVars == <<probeConfig, probeCtx, bpc, baudIdx, wakeIdx, serialPort, line,
              buffer, pr, probeResult, attempts, probeWire>>

\* the state of one pass through the engine: Analyze, MaybeProbe, Finalize
VARIABLES
    rxText,          \* the rx argument of Analyze
    lastPrompt,      \* the lastPrompt argument of Analyze
    detected,        \* the Stage Analyze returned
    scored,          \* what GetCandidates returned inside Analyze
    ranked,          \* the candidates Analyze returned
    finalIn,         \* the arguments of Finalize: cands, prompt, probeOut
    final,           \* the Result Finalize returned
    epc              \* "analyze", "probe", "finalize", "done"

engineVars == <<rxText, lastPrompt, detected, scored, ranked, finalIn, final, epc>>

\* Normalize applied to a text, and to its own result
VARIABLES
    normIn,          \* the argument
    normOnce,        \* Normalize(normIn)
    normTwice,       \* Normalize(Normalize(normIn))
    npc              \* where the two calls are: "start", "once", "done"

textVars == <<normIn, normOnce, normTwice, npc>>

\* Redaction of a snapshot, and of its own result
VARIABLES
    snapGiven,       \* the snapshot as the caller built it
    snap,            \* the caller's snapshot now
    redacted,        \* redactSnapshot(snap)
    redactedAgain,   \* redactSnapshot(redactSnapshot(snap))
    rspc             \* where the two calls are: "start", "once", "done"

redactVars == <<snapGiven, snap, redacted, redactedAgain, rspc>>

\* One DiscoverPorts call
VARIABLES
    goos,            \* runtime.GOOS
    portsList,       \* what serial.GetPortsList returns
    portsErr,        \* whether it returns an error
    ports,           \* the result of DiscoverPorts
    dpc              \* "start" before the call, "done" after it

portVars == <<goos, portsList, portsErr, ports, dpc>>

\* What ReadUntil can hand back.  Expect and Scrape see only the output, so
\* an output is its text plus what they find in it: expect (some Expect
\* regex matches) and model (the trimmed first capture of the first Scrape
\* regex that matches, "" when none does).
ProbeOutputs == {
    [raw |-> "", expect |-> FALSE, model |-> ""],
    [raw |-> "% Invalid input", expect |-> FALSE, model |-> ""],
    [raw |-> "Cisco IOS Software", expect |-> TRUE, model |-> ""],
    [raw |-> "Cisco IOS Software ... Processor board ID FOC1", expect |-> TRUE, model |-> "FOC1"],
    [raw |-> "Processor board ID FOC1", expect |-> FALSE, model |-> "FOC1"] }
NoOutput == [raw |-> "", expect |-> FALSE, model |-> ""]

ScoreWeak(out) == IF out.expect THEN 15 ELSE 0

Score(out) == IF out.expect THEN 20 ELSE 0
ScrapeModel(out) == out.model

NoError == "nil"
WriteErrors == {NoError, "serial write error"}
ReadErrors  == {NoError, "probe read timeout", "session closed"}
\* the timeout argument, in milliseconds
Timeouts == {0, 500}

WriteCall(data) == [op |-> "Write", arg |-> data, timeout |-> 0]
ReadUntilCall(t, terms) == [op |-> "ReadUntil", arg |-> terms, timeout |-> t]

\* a nil *Candidate is <<>>, a pointer to c is <<c>>
Returned(calls, out, upd, err) ==
    [calls |-> calls, out |-> out, upd |-> upd, err |-> err]
Refused == Returned(<<>>, NoOutput, <<>>, NoError)

\* the checks of MaybeProbe that precede the guard
QualifiesAtAnyStage(c, nilSess) ==
    ~nilSess /\ c.NextSafeProbe # NilProbe /\ ~(c.Prob < 55)

Qualifies(c, nilSess) ==
    /\ ~nilSess
    /\ c.NextSafeProbe # NilProbe
    /\ c.stage = StagePrompt
    /\ ~(c.Prob < 55)

\* Guard.MatchString on the lines of Prompts, computed once
GuardMemo ==
    [key \in ProbeKeys |->
        [p \in Prompts |-> MatchString(safeProbes[key].Guard, p)]]

\* probe.Guard.MatchString(cand.Prompt), for the probe stored under key
\* (every Guard of the catalogue is non-nil)
GuardAllows(key, c) ==
    IF c.Prompt \in Prompts THEN GuardMemo[key][c.Prompt]
    ELSE MatchString(safeProbes[key].Guard, c.Prompt)

\* every early return of MaybeProbe is passed
Permitted(c, nilSess) ==
    /\ Qualifies(c, nilSess)
    /\ GuardAllows(c.NextSafeProbe, c)

ProbeCommandBare(probe) == probe.Command

ProbeCommand(probe) ==
    IF HasSuffix(probe.Command, <<"\n">>) THEN probe.Command
    ELSE probe.Command \o <<"\r", "\n">>

ProbeTimeout(probe, timeout) ==
    IF timeout <= 0
    THEN IF probe.TimeoutMs > 0 THEN probe.TimeoutMs ELSE 1100
    ELSE timeout

ProbeTerminators == << <<"#">>, <<">">>, <<"$">>, <<"\n">> >>

Rescore(probe, c, out) ==
    LET boosted == IF Score(out) > 0
                   THEN [c EXCEPT !.Prob = clamp01(c.Prob + Score(out)),
                                  !.Evidence = Append(c.Evidence,
                                       probe.Name \o " probe expect matched")]
                   ELSE [c EXCEPT !.Evidence = Append(c.Evidence,
                                       probe.Name \o " probe output recorded")]
    IN  IF ScrapeModel(out) # ""
        THEN [boosted EXCEPT !.Evidence =
                  Append(boosted.Evidence, "model: " \o ScrapeModel(out))]
        ELSE boosted

RunProbeKeepsUpdate(c, timeout, wErr, rOut, rErr) ==
    LET probe == safeProbes[c.NextSafeProbe]
        write == WriteCall(ProbeCommand(probe))
        read  == ReadUntilCall(ProbeTimeout(probe, timeout), ProbeTerminators)
    IN  IF wErr # NoError THEN Returned(<<write>>, NoOutput, <<>>, wErr)
        ELSE Returned(<<write, read>>, rOut, <<Rescore(probe, c, rOut)>>, rErr)

\* MaybeProbe past its early returns, when sess.Write returns wErr and
\* sess.ReadUntil returns (rOut, rErr)
RunProbe(c, timeout, wErr, rOut, rErr) ==
    LET probe == safeProbes[c.NextSafeProbe]
        write == WriteCall(ProbeCommand(probe))
        read  == ReadUntilCall(ProbeTimeout(probe, timeout), ProbeTerminators)
    IN  IF wErr # NoError THEN Returned(<<write>>, NoOutput, <<>>, wErr)
        ELSE IF rErr # NoError THEN Returned(<<write, read>>, rOut, <<>>, rErr)
        ELSE Returned(<<write, read>>, rOut, <<Rescore(probe, c, rOut)>>, NoError)

\* the RX text as the scorer sees it: at most one signature (hot) has
\* PreLogin / Login patterns that fire
Fire(hot, pre, login) ==
    [pre   |-> [i \in 1..N |-> IF i = hot THEN pre ELSE 0],
     login |-> [i \in 1..N |-> IF i = hot THEN login ELSE 0]]

AnalyzedCandidates ==
    UNION { UNION { LET a == Analyze(Fire(hot, pre, login), boot, loginLine, prompt)
                    IN  {a.candidates[k] : k \in 1..Len(a.candidates)} :
                    pre \in 0..Len(signatureRegistry[hot].PreLogin),
                    login \in 0..Len(signatureRegistry[hot].Login),
                    boot \in BOOLEAN, loginLine \in BOOLEAN, prompt \in Prompts } :
            hot \in 1..N }

InitProbe ==
    /\ cand \in AnalyzedCandidates
    /\ allowProbeInConfigMode \in BOOLEAN
    /\ sessNil \in BOOLEAN
    /\ sessCalls = <<>>
    /\ ret = [out |-> NoOutput, upd |-> <<>>, err |-> NoError]
    /\ ppc = "ready"

MaybeProbe ==
    /\ ppc = "ready"
    /\ LET permitted == Permitted(cand, sessNil)
       IN  \E timeout \in Timeouts, wErr \in WriteErrors,
              rOut \in ProbeOutputs, rErr \in ReadErrors :
              LET r == IF permitted
                       THEN RunProbe(cand, timeout, wErr, rOut, rErr)
                       ELSE Refused
              IN  /\ sessCalls' = r.calls
                  /\ ret' = [out |-> r.out, upd |-> r.upd, err |-> r.err]
    /\ ppc' = "done"
    /\ UNCHANGED <<cand, allowProbeInConfigMode, sessNil>>
    /\ UNCHANGED <<sessionVars, baudVars, engineVars, textVars, redactVars, portVars>>

\* ----------------------------------------------------------------- Session

MaxReads    == 2   \* non-empty reads the OS hands to readLoop
MaxOps      == 2   \* operations the callers start
ReadChanCap == 1   \* buffer of readChan (100 in NewSession)
ErrChanCap  == 1   \* buffer of errChan (10 in NewSession)
WatcherCap  == 1   \* buffer of a ReadUntil watcher (32 in ReadUntil)

\* the goroutines that call into the session
Callers == {"c1", "c2"}
Nobody  == "none"

\* serial.NoParity, serial.OneStopBit: the zero values of their types
NoParity   == "N"
OneStopBit == 1

ParityOf(p) == IF p \in {"O", "E"} THEN p ELSE NoParity
StopBitsOf(n) == IF n = 2 THEN 2 ELSE OneStopBit

Mode(baud, dataBits, parity, stopBits) ==
    [BaudRate |-> baud, DataBits |-> dataBits, Parity |-> parity, StopBits |-> stopBits]

\* DefaultSessionConfig, with transcripts on or off
Configs ==
    [PortPath : {"/dev/ttyUSB0"}, Baud : {9600}, DataBits : {8}, Parity : {"N"},
     StopBits : {1}, CRLFMode : {"CRLF"}, LocalEcho : {FALSE}, LogToFile : BOOLEAN]

File(present) == [present |-> present, open |-> present, closes |-> 0, data |-> <<>>]

\* (*os.File).Write / WriteString: fails on a closed file
FileWrite(f, entry) ==
    IF f.present /\ f.open THEN [f EXCEPT !.data = Append(@, entry)] ELSE f

\* (*os.File).Close, called when the handle is non-nil
FileClose(f) ==
    IF f.present THEN [f EXCEPT !.open = FALSE, !.closes = @ + 1] ELSE f

\* a chunk is the bytes of one port.Read; id is its position in osReads
Chunk(id, data) == [id |-> id, data |-> data]
ChunkData == { <<"a">>, <<"NUL", "#", "\n">> }

\* the data arguments of Write
WriteData == { <<"a", "\n">> }
\* the duration arguments of SendBreak, in milliseconds
BreakDurations == {255}
\* the terminator arguments of ReadUntil
TerminatorLists == { <<>>, << <<"#">> >>, ProbeTerminators }

RECURSIVE transformCRLF(_)
transformCRLF(data) ==
    IF data = <<>> THEN <<>>
    ELSE (IF Head(data) = "\n" THEN <<"\r", "\n">> ELSE <<Head(data)>>)
         \o transformCRLF(Tail(data))

transformLineEndings(mode, data) ==
    IF mode = "CRLF" THEN transformCRLF(data)
    ELSE IF mode = "CR"
         THEN [k \in 1..Len(data) |-> IF data[k] = "\n" THEN "\r" ELSE data[k]]
         ELSE data

\* cleanSerialData on the bytes of this model: \r, \n, \t, ESC and printable
\* ASCII are kept, the other control bytes become a space
cleanSerialData(data) ==
    [k \in 1..Len(data) |->
        IF data[k] \in {"NUL", "VT", "\f"} THEN " " ELSE data[k]]

matchesTerminatorUntrimmed(out, terms) ==
    LET trimmed == TrimSpace(out)
    IN  \E k \in 1..Len(terms) :
            /\ Len(terms[k]) # 0
            /\ HasSuffix(trimmed, terms[k])

matchesTerminator(out, terms) ==
    LET trimmed == TrimSpace(out)
    IN  \E k \in 1..Len(terms) :
            /\ Len(terms[k]) # 0
            /\ HasSuffix(trimmed, TrimSpace(terms[k]))

CanLockAlways == TRUE

\* sync.RWMutex
CanLock  == mu.w = Nobody /\ mu.r = {}
CanRLock == mu.w = Nobody
Locked(t)    == [mu EXCEPT !.w = t]
Unlocked     == [mu EXCEPT !.w = Nobody]
RLocked(t)   == [mu EXCEPT !.r = @ \cup {t}]
RUnlocked(t) == [mu EXCEPT !.r = @ \ {t}]

TrySendTwice(ch, x, cap) == IF Len(ch) < cap THEN ch \o <<x, x>> ELSE ch

\* select { case ch <- x: default: } on a channel with buffer cap
TrySend(ch, x, cap) == IF Len(ch) < cap THEN Append(ch, x) ELSE ch

NoOp == [op |-> "none"]
NoRet == [by |-> Nobody, op |-> "none", out |-> <<>>, err |-> NoError]
Ret(c, op, out, err) == [by |-> c, op |-> op, out |-> out, err |-> err]

\* the state NewSession leaves behind (its SetDTR(true) and SetRTS(true) done)
NewSession(cfg) ==
    /\ config = cfg
    /\ mu = [w |-> Nobody, r |-> {}]
    /\ ctxDone = FALSE
    /\ port = [open |-> TRUE, closes |-> 0,
               mode |-> Mode(config.Baud, config.DataBits,
                             ParityOf(config.Parity), StopBitsOf(config.StopBits)),
               dtr |-> TRUE, rts |-> TRUE]
    /\ wire = <<>>
    /\ dtrState = TRUE
    /\ rtsState = TRUE
    /\ bytesRead = 0
    /\ bytesWritten = 0
    /\ logFile = File(config.LogToFile)
    /\ logFileTxt = File(config.LogToFile)
    /\ readChan = <<>>
    /\ readChanClosed = FALSE
    /\ errChan = <<>>
    /\ watchers = {}
    /\ wchan = [c \in Callers |-> <<>>]
    /\ rpc = "Read"
    /\ rdata = <<>>
    /\ osReads = <<>>
    /\ got = <<>>
    /\ wgot = [c \in Callers |-> <<>>]
    /\ cpc = [c \in Callers |-> "idle"]
    /\ cop = [c \in Callers |-> NoOp]
    /\ cret = NoRet
    /\ closeRets = <<>>
    /\ ops = 0

InitSession == \E cfg \in Configs : NewSession(cfg)

\* ---- the callers: an idle caller starts one operation of the Session API

\* (the callers are interchangeable: the first operation is c1's)
Begin(c, op, pc) ==
    /\ cpc[c] = "idle"
    /\ ops < MaxOps
    /\ c = "c1" \/ ops > 0
    /\ ops' = ops + 1
    /\ cop' = [cop EXCEPT ![c] = op]
    /\ cpc' = [cpc EXCEPT ![c] = pc]

\* a caller's operation returns
Leave(c, out, err) ==
    /\ cret' = Ret(c, cop[c].op, out, err)
    /\ cop' = [cop EXCEPT ![c] = NoOp]
    /\ cpc' = [cpc EXCEPT ![c] = "idle"]

\* the duration of ReadUntil's timer, in milliseconds: a timer of a positive
\* duration fires after a finite time, which ReadUntilTimeout leaves open
TimerDuration(timeout) == IF timeout <= 0 THEN 1200 ELSE timeout

Call(c) ==
    /\ \/ \E d \in WriteData : Begin(c, [op |-> "Write", data |-> d], "Write.Lock")
       \/ \E ms \in BreakDurations :
              Begin(c, [op |-> "SendBreak", ms |-> ms], "SendBreak.Lock")
       \/ \E b \in BOOLEAN : Begin(c, [op |-> "SetDTR", active |-> b], "SetDTR.Lock")
       \/ \E b \in BOOLEAN : Begin(c, [op |-> "SetRTS", active |-> b], "SetRTS.Lock")
       \/ Begin(c, [op |-> "GetDTR"], "GetDTR.RLock")
       \/ Begin(c, [op |-> "GetRTS"], "GetRTS.RLock")
       \/ \E t \in Timeouts, terms \in TerminatorLists :
              /\ TimerDuration(t) > 0
              /\ Begin(c, [op |-> "ReadUntil", terminators |-> terms,
                           out |-> <<>>, err |-> NoError], "ReadUntil.register")
       \/ Begin(c, [op |-> "Close"], "Close.cancel")
    /\ UNCHANGED <<config, mu, ctxDone, port, wire, dtrState, rtsState, bytesRead,
                   bytesWritten, logFile, logFileTxt, readChan, readChanClosed,
                   errChan, watchers, wchan, rpc, rdata, osReads, got, wgot, cret,
                   closeRets>>
    /\ UNCHANGED <<probeVars, baudVars, engineVars, textVars, redactVars, portVars>>

\* Write: s.mu.Lock()
WriteLock(c) ==
    /\ cpc[c] = "Write.Lock"
    /\ CanLock
    /\ mu' = Locked(c)
    /\ cpc' = [cpc EXCEPT ![c] = "Write.port"]
    /\ UNCHANGED <<config, ctxDone, port, wire, dtrState, rtsState, bytesRead,
                   bytesWritten, logFile, logFileTxt, readChan, readChanClosed,
                   errChan, watchers, wchan, rpc, rdata, osReads, got, wgot, cop, cret,
                   closeRets, ops>>
    /\ UNCHANGED <<probeVars, baudVars, engineVars, textVars, redactVars, portVars>>

\* what port.Write(p) can return: all of p, or a short count with an error
WriteOutcomes(len) ==
    IF port.open
    THEN {[n |-> len, err |-> NoError], [n |-> len - 1, err |-> "serial write error"]}
    ELSE {[n |-> 0, err |-> "serial write error"]}

Emit(data, by) ==
    IF data = <<>> THEN wire
    ELSE Append(wire, [data |-> data, baud |-> port.mode.BaudRate, by |-> by])

\* the count Write adds to bytesWritten
Written(n) == bytesWritten + n

\* Write, from transformLineEndings to the deferred Unlock
Write(c) ==
    /\ cpc[c] = "Write.port"
    /\ LET transformed == transformLineEndings(config.CRLFMode, cop[c].data)
       IN  \E o \in WriteOutcomes(Len(transformed)) :
               /\ wire' = Emit(SubSeq(transformed, 1, o.n), "Write")
               /\ IF o.err # NoError
                  THEN UNCHANGED <<bytesWritten, logFile>>
                  ELSE /\ bytesWritten' = Written(o.n)
                       /\ logFile' = FileWrite(logFile, [by |-> "Write",
                                                         data |-> transformed])
               /\ Leave(c, o.n, o.err)
    /\ mu' = Unlocked
    /\ UNCHANGED <<config, ctxDone, port, dtrState, rtsState, bytesRead, logFileTxt,
                   readChan, readChanClosed, errChan, watchers, wchan, rpc, rdata,
                   osReads, got, wgot, closeRets, ops>>
    /\ UNCHANGED <<probeVars, baudVars, engineVars, textVars, redactVars, portVars>>

\* the number of 0x00 bytes emulateBreak writes for a duration in milliseconds
nullBytes(ms) == IF ms \div 10 < 1 THEN 1 ELSE ms \div 10

\* SendBreak: s.mu.Lock(); emulateBreak: port.SetMode(newMode), which sets
\* BaudRate and DataBits only, then the loop of port.Write([]byte{0x00}), its
\* errors ignored
EmulateBreakLower(c) ==
    /\ cpc[c] = "SendBreak.Lock"
    /\ CanLock
    /\ \/ /\ port.open
          /\ port' = [port EXCEPT !.mode = Mode(config.Baud \div 10, config.DataBits,
                                                NoParity, OneStopBit)]
          /\ wire' = Append(wire, [data |-> [k \in 1..nullBytes(cop[c].ms) |-> "NUL"],
                                   baud |-> port'.mode.BaudRate,
                                   by |-> "emulateBreak"])
          /\ mu' = Locked(c)
          /\ cpc' = [cpc EXCEPT ![c] = "emulateBreak.restore"]
          /\ UNCHANGED <<cret, cop>>
       \/ /\ Leave(c, <<>>, "failed to lower baud for break emulation")
          /\ UNCHANGED <<port, wire, mu>>
    /\ UNCHANGED <<config, ctxDone, dtrState, rtsState, bytesRead, bytesWritten,
                   logFile, logFileTxt, readChan, readChanClosed, errChan, watchers,
                   wchan, rpc, rdata, osReads, got, wgot, closeRets, ops>>
    /\ UNCHANGED <<probeVars, baudVars, engineVars, textVars, redactVars, portVars>>

EmulateBreakRestoreSilently(c) ==
    /\ cpc[c] = "emulateBreak.restore"
    /\ \/ /\ port.open
          /\ port' = [port EXCEPT !.mode = Mode(config.Baud, config.DataBits,
                                                NoParity, OneStopBit)]
          /\ Leave(c, <<>>, NoError)
       \/ /\ UNCHANGED port
          /\ Leave(c, <<>>, NoError)
    /\ mu' = Unlocked
    /\ UNCHANGED <<config, ctxDone, wire, dtrState, rtsState, bytesRead, bytesWritten,
                   logFile, logFileTxt, readChan, readChanClosed, errChan, watchers,
                   wchan, rpc, rdata, osReads, got, wgot, closeRets, ops>>
    /\ UNCHANGED <<probeVars, baudVars, engineVars, textVars, redactVars, portVars>>

\* emulateBreak: port.SetMode(originalMode), then SendBreak's deferred Unlock
EmulateBreakRestore(c) ==
    /\ cpc[c] = "emulateBreak.restore"
    /\ \/ /\ port.open
          /\ port' = [port EXCEPT !.mode = Mode(config.Baud, config.DataBits,
                                                NoParity, OneStopBit)]
          /\ Leave(c, <<>>, NoError)
       \/ /\ UNCHANGED port
          /\ Leave(c, <<>>, "set mode error")
    /\ mu' = Unlocked
    /\ UNCHANGED <<config, ctxDone, wire, dtrState, rtsState, bytesRead, bytesWritten,
                   logFile, logFileTxt, readChan, readChanClosed, errChan, watchers,
                   wchan, rpc, rdata, osReads, got, wgot, closeRets, ops>>
    /\ UNCHANGED <<probeVars, baudVars, engineVars, textVars, redactVars, portVars>>

\* SetDTR: s.mu.Lock(), port.SetDTR(active); on an error the return
SetDTRPort(c) ==
    /\ cpc[c] = "SetDTR.Lock"
    /\ CanLock
    /\ \/ /\ port.open
          /\ port' = [port EXCEPT !.dtr = cop[c].active]
          /\ mu' = Locked(c)
          /\ cpc' = [cpc EXCEPT ![c] = "SetDTR.state"]
          /\ UNCHANGED <<cret, cop>>
       \/ /\ Leave(c, <<>>, "failed to set DTR")
          /\ UNCHANGED <<port, mu>>
    /\ UNCHANGED <<config, ctxDone, wire, dtrState, rtsState, bytesRead, bytesWritten,
                   logFile, logFileTxt, readChan, readChanClosed, errChan, watchers,
                   wchan, rpc, rdata, osReads, got, wgot, closeRets, ops>>
    /\ UNCHANGED <<probeVars, baudVars, engineVars, textVars, redactVars, portVars>>

\* SetDTR: s.dtrState = active, then the deferred Unlock
SetDTRState(c) ==
    /\ cpc[c] = "SetDTR.state"
    /\ dtrState' = cop[c].active
    /\ Leave(c, <<>>, NoError)
    /\ mu' = Unlocked
    /\ UNCHANGED <<config, ctxDone, port, wire, rtsState, bytesRead, bytesWritten,
                   logFile, logFileTxt, readChan, readChanClosed, errChan, watchers,
                   wchan, rpc, rdata, osReads, got, wgot, closeRets, ops>>
    /\ UNCHANGED <<probeVars, baudVars, engineVars, textVars, redactVars, portVars>>

\* SetRTS: s.mu.Lock(), port.SetRTS(active); on an error the return
SetRTSPort(c) ==
    /\ cpc[c] = "SetRTS.Lock"
    /\ CanLock
    /\ \/ /\ port.open
          /\ port' = [port EXCEPT !.rts = cop[c].active]
          /\ mu' = Locked(c)
          /\ cpc' = [cpc EXCEPT ![c] = "SetRTS.state"]
          /\ UNCHANGED <<cret, cop>>
       \/ /\ Leave(c, <<>>, "failed to set RTS")
          /\ UNCHANGED <<port, mu>>
    /\ UNCHANGED <<config, ctxDone, wire, dtrState, rtsState, bytesRead, bytesWritten,
                   logFile, logFileTxt, readChan, readChanClosed, errChan, watchers,
                   wchan, rpc, rdata, osReads, got, wgot, closeRets, ops>>
    /\ UNCHANGED <<probeVars, baudVars, engineVars, textVars, redactVars, portVars>>

\* SetRTS: s.rtsState = active, then the deferred Unlock
SetRTSState(c) ==
    /\ cpc[c] = "SetRTS.state"
    /\ rtsState' = cop[c].active
    /\ Leave(c, <<>>, NoError)
    /\ mu' = Unlocked
    /\ UNCHANGED <<config, ctxDone, port, wire, dtrState, bytesRead, bytesWritten,
                   logFile, logFileTxt, readChan, readChanClosed, errChan, watchers,
                   wchan, rpc, rdata, osReads, got, wgot, closeRets, ops>>
    /\ UNCHANGED <<probeVars, baudVars, engineVars, textVars, redactVars, portVars>>

\* GetDTR: s.mu.RLock()
GetDTRRLock(c) ==
    /\ cpc[c] = "GetDTR.RLock"
    /\ CanRLock
    /\ mu' = RLocked(c)
    /\ cpc' = [cpc EXCEPT ![c] = "GetDTR.read"]
    /\ UNCHANGED <<config, ctxDone, port, wire, dtrState, rtsState, bytesRead,
                   bytesWritten, logFile, logFileTxt, readChan, readChanClosed,
                   errChan, watchers, wchan, rpc, rdata, osReads, got, wgot, cop, cret,
                   closeRets, ops>>
    /\ UNCHANGED <<probeVars, baudVars, engineVars, textVars, redactVars, portVars>>

\* GetDTR: return s.dtrState, with the deferred RUnlock
GetDTR(c) ==
    /\ cpc[c] = "GetDTR.read"
    /\ Leave(c, dtrState, NoError)
    /\ mu' = RUnlocked(c)
    /\ UNCHANGED <<config, ctxDone, port, wire, dtrState, rtsState, bytesRead,
                   bytesWritten, logFile, logFileTxt, readChan, readChanClosed,
                   errChan, watchers, wchan, rpc, rdata, osReads, got, wgot, closeRets,
                   ops>>
    /\ UNCHANGED <<probeVars, baudVars, engineVars, textVars, redactVars, portVars>>

\* GetRTS: s.mu.RLock()
GetRTSRLock(c) ==
    /\ cpc[c] = "GetRTS.RLock"
    /\ CanRLock
    /\ mu' = RLocked(c)
    /\ cpc' = [cpc EXCEPT ![c] = "GetRTS.read"]
    /\ UNCHANGED <<config, ctxDone, port, wire, dtrState, rtsState, bytesRead,
                   bytesWritten, logFile, logFileTxt, readChan, readChanClosed,
                   errChan, watchers, wchan, rpc, rdata, osReads, got, wgot, cop, cret,
                   closeRets, ops>>
    /\ UNCHANGED <<probeVars, baudVars, engineVars, textVars, redactVars, portVars>>

\* GetRTS: return s.rtsState, with the deferred RUnlock
GetRTS(c) ==
    /\ cpc[c] = "GetRTS.read"
    /\ Leave(c, rtsState, NoError)
    /\ mu' = RUnlocked(c)
    /\ UNCHANGED <<config, ctxDone, port, wire, dtrState, rtsState, bytesRead,
                   bytesWritten, logFile, logFileTxt, readChan, readChanClosed,
                   errChan, watchers, wchan, rpc, rdata, osReads, got, wgot, closeRets,
                   ops>>
    /\ UNCHANGED <<probeVars, baudVars, engineVars, textVars, redactVars, portVars>>

\* ReadUntil: make the watcher and registerWatcher it (Lock, insert, Unlock)
registerWatcher(c) ==
    /\ cpc[c] = "ReadUntil.register"
    /\ CanLock
    /\ watchers' = watchers \cup {c}
    /\ cpc' = [cpc EXCEPT ![c] = "ReadUntil.select"]
    /\ UNCHANGED <<config, mu, ctxDone, port, wire, dtrState, rtsState, bytesRead,
                   bytesWritten, logFile, logFileTxt, readChan, readChanClosed,
                   errChan, wchan, rpc, rdata, osReads, got, wgot, cop, cret,
                   closeRets, ops>>
    /\ UNCHANGED <<probeVars, baudVars, engineVars, textVars, redactVars, portVars>>

\* builder.String(): the chunks received so far, concatenated
RECURSIVE Concat(_)
Concat(chunks) ==
    IF chunks = <<>> THEN <<>> ELSE Head(chunks).data \o Concat(Tail(chunks))

\* a return statement of ReadUntil: the result is fixed, the deferred
\* unregisterWatcher is still to run
ReadUntilReturn(c, out, err) ==
    /\ cop' = [cop EXCEPT ![c].out = out, ![c].err = err]
    /\ cpc' = [cpc EXCEPT ![c] = "ReadUntil.unregister"]

\* ReadUntil: case <-s.ctx.Done()
ReadUntilDone(c) ==
    /\ cpc[c] = "ReadUntil.select"
    /\ ctxDone
    /\ ReadUntilReturn(c, Concat(wgot[c]), "session closed")
    /\ UNCHANGED <<config, mu, ctxDone, port, wire, dtrState, rtsState, bytesRead,
                   bytesWritten, logFile, logFileTxt, readChan, readChanClosed,
                   errChan, watchers, wchan, rpc, rdata, osReads, got, wgot, cret,
                   closeRets, ops>>
    /\ UNCHANGED <<probeVars, baudVars, engineVars, textVars, redactVars, portVars>>

\* ReadUntil: case <-timer.C
ReadUntilTimeout(c) ==
    /\ cpc[c] = "ReadUntil.select"
    /\ ReadUntilReturn(c, Concat(wgot[c]), "probe read timeout")
    /\ UNCHANGED <<config, mu, ctxDone, port, wire, dtrState, rtsState, bytesRead,
                   bytesWritten, logFile, logFileTxt, readChan, readChanClosed,
                   errChan, watchers, wchan, rpc, rdata, osReads, got, wgot, cret,
                   closeRets, ops>>
    /\ UNCHANGED <<probeVars, baudVars, engineVars, textVars, redactVars, portVars>>

\* ReadUntil: case chunk := <-watcher
ReadUntilChunk(c) ==
    /\ cpc[c] = "ReadUntil.select"
    /\ wchan[c] # <<>>
    /\ wchan' = [wchan EXCEPT ![c] = Tail(@)]
    /\ LET chunk == Head(wchan[c])
           received == IF Len(chunk.data) = 0 THEN wgot[c] ELSE Append(wgot[c], chunk)
       IN  /\ wgot' = [wgot EXCEPT ![c] = received]
           /\ IF /\ Len(chunk.data) # 0
                 /\ Len(cop[c].terminators) # 0
                 /\ matchesTerminator(Concat(received), cop[c].terminators)
              THEN ReadUntilReturn(c, Concat(received), NoError)
              ELSE UNCHANGED <<cpc, cop>>
    /\ UNCHANGED <<config, mu, ctxDone, port, wire, dtrState, rtsState, bytesRead,
                   bytesWritten, logFile, logFileTxt, readChan, readChanClosed,
                   errChan, watchers, rpc, rdata, osReads, got, cret, closeRets, ops>>
    /\ UNCHANGED <<probeVars, baudVars, engineVars, textVars, redactVars, portVars>>

unregisterWatcherKeeps(c) ==
    /\ cpc[c] = "ReadUntil.unregister"
    /\ CanLock
    /\ watchers' = watchers
    /\ wchan' = [wchan EXCEPT ![c] = <<>>]
    /\ wgot' = [wgot EXCEPT ![c] = <<>>]
    /\ Leave(c, cop[c].out, cop[c].err)
    /\ UNCHANGED <<config, mu, ctxDone, port, wire, dtrState, rtsState, bytesRead,
                   bytesWritten, logFile, logFileTxt, readChan, readChanClosed,
                   errChan, rpc, rdata, osReads, got, closeRets, ops>>
    /\ UNCHANGED <<probeVars, baudVars, engineVars, textVars, redactVars, portVars>>

\* ReadUntil: the deferred unregisterWatcher (Lock, delete, Unlock), with the
\* watcher channel and the builder going out of scope
unregisterWatcher(c) ==
    /\ cpc[c] = "ReadUntil.unregister"
    /\ CanLock
    /\ watchers' = watchers \ {c}
    /\ wchan' = [wchan EXCEPT ![c] = <<>>]
    /\ wgot' = [wgot EXCEPT ![c] = <<>>]
    /\ Leave(c, cop[c].out, cop[c].err)
    /\ UNCHANGED <<config, mu, ctxDone, port, wire, dtrState, rtsState, bytesRead,
                   bytesWritten, logFile, logFileTxt, readChan, readChanClosed,
                   errChan, rpc, rdata, osReads, got, closeRets, ops>>
    /\ UNCHANGED <<probeVars, baudVars, engineVars, textVars, redactVars, portVars>>

\* Close: s.cancel()
CloseCancel(c) ==
    /\ cpc[c] = "Close.cancel"
    /\ ctxDone' = TRUE
    /\ cpc' = [cpc EXCEPT ![c] = "Close.Lock"]
    /\ UNCHANGED <<config, mu, port, wire, dtrState, rtsState, bytesRead, bytesWritten,
                   logFile, logFileTxt, readChan, readChanClosed, errChan, watchers,
                   wchan, rpc, rdata, osReads, got, wgot, cop, cret, closeRets, ops>>
    /\ UNCHANGED <<probeVars, baudVars, engineVars, textVars, redactVars, portVars>>

\* what port.Close() returns: nil on an open port; on a port already closed
\* the serial library decides
PortCloseResults == IF port.open THEN {NoError} ELSE {NoError, "port already closed"}

\* Close: Lock, close the transcripts, return s.port.Close(), the deferred Unlock
Close(c) ==
    /\ cpc[c] = "Close.Lock"
    /\ CanLock
    /\ logFile' = FileClose(logFile)
    /\ logFileTxt' = FileClose(logFileTxt)
    /\ port' = [port EXCEPT !.open = FALSE, !.closes = @ + 1]
    /\ \E err \in PortCloseResults :
           /\ closeRets' = Append(closeRets, err)
           /\ Leave(c, <<>>, err)
    /\ UNCHANGED <<config, mu, ctxDone, wire, dtrState, rtsState, bytesRead,
                   bytesWritten, readChan, readChanClosed, errChan, watchers, wchan,
                   rpc, rdata, osReads, got, wgot, ops>>
    /\ UNCHANGED <<probeVars, baudVars, engineVars, textVars, redactVars, portVars>>

\* ---- readLoop

\* the errors of port.Read
PortReadErrors == {"EOF", "serial read error"}

\* what readLoop holds after a port.Read that failed
ReadFailure(err) == [id |-> 0, data |-> <<>>, err |-> err]

\* the top of the loop: return once s.ctx is done, otherwise
\* n, err := s.port.Read(buffer): bytes, nothing, or an error
ReadLoopRead ==
    /\ rpc = "Read"
    /\ \/ /\ ctxDone
          /\ rpc' = "return"
          /\ UNCHANGED <<rdata, osReads, errChan>>
       \/ /\ ~ctxDone
          /\ port.open
          /\ Len(osReads) < MaxReads
          /\ \E d \in ChunkData :
                 /\ rdata' = Chunk(Len(osReads) + 1, d)
                 /\ osReads' = Append(osReads, rdata')
          /\ rpc' = "count"
          /\ UNCHANGED errChan
       \/ /\ ~ctxDone
          /\ \E e \in PortReadErrors : rdata' = ReadFailure(e)
          /\ rpc' = "err"
          /\ UNCHANGED <<osReads, errChan>>
    /\ UNCHANGED <<config, mu, ctxDone, port, wire, dtrState, rtsState, bytesWritten,
                   cpc, cop, cret, closeRets, ops, got, wgot, watchers,
                   readChanClosed, bytesRead, logFile, logFileTxt, readChan, wchan>>
    /\ UNCHANGED <<probeVars, baudVars, engineVars, textVars, redactVars, portVars>>

\* what the reader offers to errChan for an error of port.Read
OfferedAlways(err) == TrySend(errChan, "read error", ErrChanCap)

Offered(err) ==
    IF err # "EOF" THEN TrySend(errChan, "read error", ErrChanCap) ELSE errChan

\* if err != nil: the error, unless it is io.EOF, goes to errChan when there
\* is room; continue
ReadLoopError ==
    /\ rpc = "err"
    /\ errChan' = Offered(rdata.err)
    /\ rdata' = <<>>
    /\ rpc' = "Read"
    /\ UNCHANGED <<config, mu, ctxDone, port, wire, dtrState, rtsState, bytesWritten,
                   cpc, cop, cret, closeRets, ops, got, wgot, watchers, osReads,
                   readChanClosed, bytesRead, logFile, logFileTxt, readChan, wchan>>
    /\ UNCHANGED <<probeVars, baudVars, engineVars, textVars, redactVars, portVars>>

CountedNot(n) == bytesRead

\* the count readLoop adds to bytesRead
Counted(n) == bytesRead + n

\* Lock, s.bytesRead += n, the two transcript writes, Unlock
ReadLoopCount ==
    /\ rpc = "count"
    /\ CanLock
    /\ bytesRead' = Counted(Len(rdata.data))
    /\ logFile' = FileWrite(logFile, [by |-> "readLoop", data |-> rdata.data])
    /\ logFileTxt' = FileWrite(logFileTxt, [by |-> "readLoop",
                                            data |-> cleanSerialData(rdata.data)])
    /\ rpc' = "send"
    /\ UNCHANGED <<config, mu, ctxDone, port, wire, dtrState, rtsState, bytesWritten,
                   cpc, cop, cret, closeRets, ops, got, wgot, watchers,
                   readChanClosed, rdata, osReads, errChan, readChan, wchan>>
    /\ UNCHANGED <<probeVars, baudVars, engineVars, textVars, redactVars, portVars>>

\* select { case s.readChan <- data: default: }
ReadLoopSend ==
    /\ rpc = "send"
    /\ readChan' = TrySend(readChan, rdata, ReadChanCap)
    /\ rpc' = "broadcast"
    /\ UNCHANGED <<config, mu, ctxDone, port, wire, dtrState, rtsState, bytesWritten,
                   cpc, cop, cret, closeRets, ops, got, wgot, watchers,
                   readChanClosed, rdata, osReads, errChan, bytesRead, logFile, logFileTxt, wchan>>
    /\ UNCHANGED <<probeVars, baudVars, engineVars, textVars, redactVars, portVars>>

\* broadcast: under RLock, select { case ch <- copyData: default: } for every
\* watcher, then back to the top of the loop
Broadcast ==
    /\ rpc = "broadcast"
    /\ CanRLock
    /\ wchan' = [c \in Callers |->
                    IF c \in watchers THEN TrySend(wchan[c], rdata, WatcherCap)
                                      ELSE wchan[c]]
    /\ rdata' = <<>>
    /\ rpc' = "Read"
    /\ UNCHANGED <<config, mu, ctxDone, port, wire, dtrState, rtsState, bytesWritten,
                   cpc, cop, cret, closeRets, ops, got, wgot, watchers,
                   readChanClosed, osReads, errChan, bytesRead, logFile, logFileTxt, readChan>>
    /\ UNCHANGED <<probeVars, baudVars, engineVars, textVars, redactVars, portVars>>

\* ---- the consumers of ReadChan() and ErrorChan()

\* data := <-sess.ReadChan()
ReceiveData ==
    /\ readChan # <<>>
    /\ got' = Append(got, Head(readChan))
    /\ readChan' = Tail(readChan)
    /\ UNCHANGED <<config, mu, ctxDone, port, wire, dtrState, rtsState, bytesRead,
                   bytesWritten, logFile, logFileTxt, readChanClosed, errChan,
                   watchers, wchan, rpc, rdata, osReads, wgot, cpc, cop, cret,
                   closeRets, ops>>
    /\ UNCHANGED <<probeVars, baudVars, engineVars, textVars, redactVars, portVars>>

\* err := <-sess.ErrorChan()
ReceiveError ==
    /\ errChan # <<>>
    /\ errChan' = Tail(errChan)
    /\ UNCHANGED <<config, mu, ctxDone, port, wire, dtrState, rtsState, bytesRead,
                   bytesWritten, logFile, logFileTxt, readChan, readChanClosed,
                   watchers, wchan, rpc, rdata, osReads, got, wgot, cpc, cop,
                   cret, closeRets, ops>>
    /\ UNCHANGED <<probeVars, baudVars, engineVars, textVars, redactVars, portVars>>

\* ---- result types

\* the zero value of fingerprint.Result
NoResult ==
    [Vendor |-> "", OS |-> "", Model |-> "", Prompt |-> <<>>, Stage |-> "",
     Baud |-> 0, Confidence |-> 0, Evidence |-> <<>>]

\* the zero value of ProbeResult
NoProbeResult ==
    [Success |-> FALSE, Baud |-> 0, RawData |-> <<>>, CleanedData |-> <<>>,
     Fingerprint |-> NoResult, Candidates |-> <<>>, Stage |-> "", Error |-> NoError]

\* ---- the engine: Analyze, one MaybeProbe, Finalize

\* the rx arguments of Analyze
RxTexts == {
    <<>>,
    <<"U","s","e","r","n","a","m","e",":"," ","\n","C","i","s","c","o"," ","I","O","S","\n","R","1","#">>,
    <<"U","-","B","o","o","t"," ","2","0","2","0","\n","=",">"," ">>,
    <<"ESC","[","1","m","J","U","N","O","S","ESC","[","0","m","\r","\n","l","o","g","i","n",":"," ">>,
    <<"C","i","s","c","o"," ","I","O","S","-","X","E","\r","\n","R","1",">">>,
    <<"G","N","U"," ","G","R","U","B","\n","l","o","g","i","n",":">>,
    <<"l","o","g","i","n",":","\n","\n","\n","\n","v","y","o","s"," ","l","o","g","i","n",":","\n","\n">>,
    <<"l","o","g","i","n",":","\n","a","\n","b","\n","c","\n","\n">>,
    <<"C","i","s","c","o"," ","I","O","S","\n","U","s","e","r"," ","A","c","c","e","s","s"," ","V","e","r","i","f","i","c","a","t","i","o","n","\n">> }

\* what Analyze finds in rx: Normalize, the PreLogin and Login patterns, the
\* boot and login markers, the last non-empty line
TextFacts(rx) ==
    LET normalized == Normalize(rx)
    IN  [fire  |-> FireOf(normalized),
         boot  |-> bootMatch(normalized),
         login |-> loginMatch(normalized),
         last  |-> ExtractLastPromptLine(normalized)]

\* TextFacts on the texts of RxTexts, computed once
RxMemo == [rx \in RxTexts |-> TextFacts(rx)]

\* TextFacts(rx), from RxMemo where it has them
FactsOf(rx) == IF rx \in RxTexts THEN RxMemo[rx] ELSE TextFacts(rx)

\* promptLine of Analyze: the trimmed lastPrompt or, when that is empty, the
\* last non-empty line of the normalized rx
promptLineOf(last, prompt) ==
    IF TrimSpace(prompt) = <<>> THEN last ELSE TrimSpace(prompt)

AnalyzeFacts(facts, prompt) ==
    Analyze(facts.fire, facts.boot, facts.login, promptLineOf(facts.last, prompt))

\* Analyze(rx, lastPrompt): stage, the candidates as GetCandidates returned
\* them (scored), and as Analyze returns them (candidates)
AnalyzeRx(rx, prompt) == AnalyzeFacts(FactsOf(rx), prompt)

shortlistEvidenceUncut(evs) == dedupeStrings(evs)

shortlistEvidence(evs) ==
    LET deduped == dedupeStrings(evs)
    IN  IF Len(deduped) > 3 THEN SubSeq(deduped, 1, 3) ELSE deduped

\* lookupSignature(vendor, os) # nil
lookupSignature(vendor, os) ==
    \E k \in 1..N : signatureRegistry[k].Vendor = vendor /\ signatureRegistry[k].OS = os

\* what the VersionScrape regexps of a signature find in a text: the trimmed
\* first capture of the first that matches, "" when none does
ScrapedModels == {"", "WS-C2960"}

\* scrapeModel(text, cand), found being what VersionScrape finds in text
scrapeModel(found, c) == IF lookupSignature(c.Vendor, c.OS) THEN found ELSE ""

FinalizeNotingProbe(stage, cands, rxFound, prompt, probeOut, outFound) ==
    LET res == [NoResult EXCEPT !.Stage = stage, !.Prompt = TrimSpace(prompt)]
    IN  IF Len(cands) = 0
        THEN [res EXCEPT !.Vendor = "Unknown", !.OS = "Unknown",
                         !.Evidence = shortlistEvidence(
                             IF probeOut # ""
                             THEN <<"no candidates", "probe output captured">>
                             ELSE <<"no candidates">>)]
        ELSE LET top     == cands[1]
                 fromRx  == scrapeModel(rxFound, top)
                 model   == IF fromRx = "" /\ probeOut # ""
                            THEN scrapeModel(outFound, top) ELSE fromRx
                 evs     == shortlistEvidence(top.Evidence)
             IN  [res EXCEPT !.Vendor = top.Vendor, !.OS = top.OS,
                             !.Confidence = clamp01(top.Prob),
                             !.Model = model,
                             !.Evidence = IF probeOut # ""
                                          THEN shortlistEvidence(
                                                   Append(evs, "probe output captured"))
                                          ELSE evs]

\* Finalize(stage, cands, rx, prompt, probeOut); rxFound and outFound are what
\* the VersionScrape regexps find in rx and in probeOut
Finalize(stage, cands, rxFound, prompt, probeOut, outFound) ==
    LET res == [NoResult EXCEPT !.Stage = stage, !.Prompt = TrimSpace(prompt)]
    IN  IF Len(cands) = 0
        THEN [res EXCEPT !.Vendor = "Unknown", !.OS = "Unknown",
                         !.Evidence = shortlistEvidence(<<"no candidates">>)]
        ELSE LET top     == cands[1]
                 fromRx  == scrapeModel(rxFound, top)
                 model   == IF fromRx = "" /\ probeOut # ""
                            THEN scrapeModel(outFound, top) ELSE fromRx
                 evs     == shortlistEvidence(top.Evidence)
             IN  [res EXCEPT !.Vendor = top.Vendor, !.OS = top.OS,
                             !.Confidence = clamp01(top.Prob),
                             !.Model = model,
                             !.Evidence = IF probeOut # ""
                                          THEN shortlistEvidence(
                                                   Append(evs, "probe output captured"))
                                          ELSE evs]

\* candidate lists a caller of Finalize builds by hand
CallerCandidates == {
    << [Vendor |-> "Cisco", OS |-> "IOS", Prob |-> 150,
        Evidence |-> <<" banner ", "banner", "", "  ", "prompt", "probe", "model">>,
        NextSafeProbe |-> NilProbe, stage |-> "", Prompt |-> <<>>] >>,
    << [Vendor |-> "Acme", OS |-> "RTOS", Prob |-> 0 - 20,
        Evidence |-> <<"\tone\r\n", "one">>,
        NextSafeProbe |-> NilProbe, stage |-> "", Prompt |-> <<>>] >> }

InitEngine ==
    /\ rxText \in RxTexts
    /\ lastPrompt \in Prompts
    /\ detected = ""
    /\ scored = <<>>
    /\ ranked = <<>>
    /\ finalIn = [cands |-> <<>>, prompt |-> <<>>, probeOut |-> ""]
    /\ final = NoResult
    /\ epc = "analyze"

\* stage, cands := Analyze(rx, lastPrompt); the caller then hands one of the
\* candidates to MaybeProbe, or goes on without a probe
AnalyzeStep ==
    /\ epc = "analyze"
    /\ \E a \in {AnalyzeRx(rxText, lastPrompt)} :
           /\ detected' = a.stage
           /\ scored' = a.scored
           /\ ranked' = a.candidates
           /\ \/ \E k \in 1..Len(a.candidates) :
                     /\ cand' = a.candidates[k]
                     /\ ppc' = "ready"
              \/ UNCHANGED <<cand, ppc>>
    /\ epc' = "finalize"
    /\ UNCHANGED <<rxText, lastPrompt, finalIn, final>>
    /\ UNCHANGED <<allowProbeInConfigMode, sessNil, sessCalls, ret>>
    /\ UNCHANGED <<sessionVars, baudVars, textVars, redactVars, portVars>>

\* the candidate MaybeProbe updated takes the place of the one it was given
WithUpdated(cs, old, upd) ==
    [k \in 1..Len(cs) |-> IF cs[k] = old THEN upd ELSE cs[k]]

\* the cands arguments of Finalize
FinalizeCands ==
    {ranked} \cup {WithUpdated(ranked, cand, ret.upd[k]) : k \in 1..Len(ret.upd)}
             \cup CallerCandidates

\* the prompt arguments of Finalize: the caller's last prompt, as it is and
\* with white space around it
FinalizePrompts == {lastPrompt, <<" ">> \o lastPrompt \o <<"\r", "\n">>}

\* res := Finalize(stage, cands, rx, prompt, probeOut)
FinalizeStep ==
    /\ epc = "finalize"
    /\ ppc = "done"
    /\ \E cs \in FinalizeCands, prompt \in FinalizePrompts,
          probeOut \in {"", ret.out.raw, "% Invalid input"},
          rxFound \in ScrapedModels, outFound \in {"", ret.out.model} :
           /\ finalIn' = [cands |-> cs, prompt |-> prompt, probeOut |-> probeOut]
           /\ final' = Finalize(detected, cs, rxFound, prompt, probeOut, outFound)
    /\ epc' = "done"
    /\ UNCHANGED <<rxText, lastPrompt, detected, scored, ranked>>
    /\ UNCHANGED <<probeVars, sessionVars, baudVars, textVars, redactVars, portVars>>

\* ---- Normalize on its own, applied to its own result

\* every text of at most n bytes over an alphabet
Texts(alphabet, n) == UNION {[1..k -> alphabet] : k \in 0..n}

MaxNormLen == 4   \* length of the texts given to Normalize

\* the bytes Normalize treats specially, and one it does not
NormAlphabet == {"ESC", "[", "A", "NUL", "\r", "\n"}

NormInputs == Texts(NormAlphabet, MaxNormLen)

InitText ==
    /\ normIn \in NormInputs
    /\ normOnce = <<>>
    /\ normTwice = <<>>
    /\ npc = "start"

\* once := Normalize(in)
NormalizeOnce ==
    /\ npc = "start"
    /\ normOnce' = Normalize(normIn)
    /\ npc' = "once"
    /\ UNCHANGED <<normIn, normTwice>>
    /\ UNCHANGED <<probeVars, sessionVars, baudVars, engineVars, redactVars,
                 portVars>>

\* twice := Normalize(once)
NormalizeAgain ==
    /\ npc = "once"
    /\ normTwice' = Normalize(normOnce)
    /\ npc' = "done"
    /\ UNCHANGED <<normIn, normOnce>>
    /\ UNCHANGED <<probeVars, sessionVars, baudVars, engineVars, redactVars,
                 portVars>>

\* ---- ProbePort: one baud after the other

\* DefaultProbeConfig; Timeout is in milliseconds
DefaultProbeConfig == [BaudRates |-> <<9600, 115200>>, Timeout |-> 800, MaxBytes |-> 2048]

\* the config arguments of ProbePort
ProbeConfigs == {
    DefaultProbeConfig,
    [BaudRates |-> <<>>, Timeout |-> 800, MaxBytes |-> 2048],
    [BaudRates |-> <<9600>>, Timeout |-> 0, MaxBytes |-> 2048],
    [BaudRates |-> <<9600>>, Timeout |-> 800, MaxBytes |-> 0],
    [BaudRates |-> <<115200, 9600, 9600>>, Timeout |-> 800, MaxBytes |-> 12] }

\* the n of one port.Read: the bytes that have arrived by then, at most what
\* is left of the buffer
ReadSizes(arrived, room) ==
    {n \in {8, arrived} : n <= arrived /\ n <= room} \cup ({room} \cap 0..arrived)

\* what a device sends during one attempt: nothing, a short prompt, a run of
\* NUL bytes, a prompt three times over, a bootloader banner, four letters
\* with spaces between and behind them, a prompt three times over with a lone
\* CR in front of each
Responses == {
    <<>>,
    <<"\r","\n","R","1","#">>,
    <<"NUL","NUL","NUL","NUL","NUL","NUL","NUL","NUL","NUL","NUL">>,
    <<"\r","\n","R","1","#","\r","\n","R","1","#","\r","\n","R","1","#">>,
    <<"U","-","B","o","o","t"," ","2","0","2","0","\r","\n","=",">"," ">>,
    <<"a"," ","b"," ","c"," ","d"," "," "," ">>,
    <<"\r","R","1","#","\r","R","1","#","\r","R","1","#">> }

\* the wake-up sequences of probeSingleBaud
wakePrompts == <<
    <<"\r","\n">>,
    <<"\r","\r","\r","\r","\r">>,
    <<"\r","\n","?","\r","\n">>,
    <<"\r","\n","ETX","\r","\n">> >>

\* totalRead >= 10 && len(strings.TrimSpace(result.CleanedData)) > 5
Meaningful(raw) ==
    /\ Len(raw) >= 10
    /\ Len(TrimSpace(cleanSerialData(raw))) > 5

\* the CleanedData of the attempts that can succeed
ProbeTexts ==
    UNION {{cleanSerialData(SubSeq(r, 1, n)) :
               n \in {m \in 0..Len(r) : Meaningful(SubSeq(r, 1, m))}} : r \in Responses}

\* promptLine := ExtractLastPromptLine(CleanedData); Analyze(CleanedData, promptLine)
ProbeAnalysis(cleaned) == AnalyzeRx(cleaned, ExtractLastPromptLine(cleaned))

\* ProbeAnalysis on the texts of ProbeTexts, computed once
ProbeAnalysisMemo == [rx \in ProbeTexts |-> ProbeAnalysis(rx)]

AnalysisOf(cleaned) ==
    IF cleaned \in ProbeTexts THEN ProbeAnalysisMemo[cleaned] ELSE ProbeAnalysis(cleaned)

\* the Fingerprint ProbePort returns when every baud failed
NoResponse ==
    [NoResult EXCEPT !.Vendor = "Unknown", !.OS = "Unknown", !.Stage = StagePreLogin,
                     !.Confidence = 0,
                     !.Evidence = <<"No response at configured baud rates">>]

\* ProbePort is called: result := ProbeResult{Success: false}
InitBaud ==
    /\ probeConfig \in ProbeConfigs
    /\ \E d \in BOOLEAN : probeCtx = [done |-> d, atStart |-> d]
    /\ bpc = "loop"
    /\ baudIdx = 1
    /\ wakeIdx = 0
    /\ serialPort = [open |-> FALSE, baud |-> 0]
    /\ line = <<>>
    /\ buffer = <<>>
    /\ pr = NoProbeResult
    /\ probeResult = NoProbeResult
    /\ attempts = <<>>
    /\ probeWire = <<>>

ctxErrNever(ctx) == FALSE

\* ctx.Err() != nil
ctxErr(ctx) == ctx.done

\* the context is cancelled, or its deadline passes, while ProbePort runs
CancelCtx ==
    /\ bpc # "returned"
    /\ ~probeCtx.done
    /\ probeCtx' = [probeCtx EXCEPT !.done = TRUE]
    /\ UNCHANGED <<probeConfig, bpc, baudIdx, wakeIdx, serialPort, line, buffer,
                   pr, probeResult, attempts, probeWire>>
    /\ UNCHANGED <<probeVars, sessionVars, engineVars, textVars, redactVars, portVars>>

NextBaudSkipping(k) == k + 2

\* the next index of the loop over config.BaudRates
NextBaud(k) == k + 1

\* probeSingleBaud starts for the next baud: serial.Open
OpenPort ==
    /\ bpc = "loop"
    /\ baudIdx <= Len(probeConfig.BaudRates)
    /\ LET baud == probeConfig.BaudRates[baudIdx]
       IN  \E ok \in BOOLEAN :
               /\ attempts' = Append(attempts, [baud |-> baud, idx |-> baudIdx,
                                                opened |-> ok, Success |-> FALSE])
               /\ IF ok
                  THEN /\ serialPort' = [open |-> TRUE, baud |-> baud]
                       /\ pr' = [NoProbeResult EXCEPT !.Baud = baud]
                       /\ line' \in Responses
                       /\ bpc' = "timeout"
                  ELSE /\ pr' = [NoProbeResult EXCEPT !.Baud = baud,
                                                      !.Error = "failed to open port"]
                       /\ bpc' = "attempted"
                       /\ UNCHANGED <<serialPort, line>>
    /\ UNCHANGED <<probeConfig, probeCtx, baudIdx, wakeIdx, buffer, probeResult, probeWire>>
    /\ UNCHANGED <<probeVars, sessionVars, engineVars, textVars, redactVars, portVars>>

\* port.SetReadTimeout(config.Timeout); on an error the deferred Close runs
SetReadTimeout ==
    /\ bpc = "timeout"
    /\ \E ok \in BOOLEAN :
           IF ok
           THEN /\ bpc' = "wake"
                /\ wakeIdx' = 1
                /\ UNCHANGED <<pr, serialPort>>
           ELSE /\ pr' = [pr EXCEPT !.Error = "failed to set timeout"]
                /\ serialPort' = [serialPort EXCEPT !.open = FALSE]
                /\ bpc' = "attempted"
                /\ UNCHANGED wakeIdx
    /\ UNCHANGED <<probeConfig, probeCtx, baudIdx, line, buffer, probeResult,
                   attempts, probeWire>>
    /\ UNCHANGED <<probeVars, sessionVars, engineVars, textVars, redactVars, portVars>>

\* one iteration of the loop over the wake-up sequences: the ctx check, then
\* the Write (probeWire has the calls; what a Write returns is dropped)
WakeUp ==
    /\ bpc = "wake"
    /\ IF ctxErr(probeCtx)
       THEN /\ pr' = [pr EXCEPT !.Error = "context canceled"]
            /\ serialPort' = [serialPort EXCEPT !.open = FALSE]
            /\ bpc' = "attempted"
            /\ UNCHANGED <<wakeIdx, probeWire, buffer>>
       ELSE /\ probeWire' = Append(probeWire, [data |-> wakePrompts[wakeIdx],
                                               baud |-> serialPort.baud])
            /\ IF wakeIdx < Len(wakePrompts)
               THEN wakeIdx' = wakeIdx + 1 /\ UNCHANGED <<bpc, buffer>>
               ELSE bpc' = "read" /\ buffer' = <<>> /\ UNCHANGED wakeIdx
            /\ UNCHANGED <<pr, serialPort>>
    /\ UNCHANGED <<probeConfig, probeCtx, baudIdx, line, probeResult, attempts>>
    /\ UNCHANGED <<probeVars, sessionVars, engineVars, textVars, redactVars, portVars>>

\* one test of the read loop's condition and, when it holds, one iteration:
\* the ctx check, then port.Read into buffer[totalRead:]
ReadResponse ==
    /\ bpc = "read"
    /\ \/ \* the deadline has passed, or the buffer is full
          /\ bpc' = "judge"
          /\ UNCHANGED <<pr, serialPort, line, buffer>>
       \/ /\ probeConfig.Timeout > 0
          /\ Len(buffer) < probeConfig.MaxBytes
          /\ IF ctxErr(probeCtx)
             THEN /\ pr' = [pr EXCEPT !.Error = "context canceled"]
                  /\ serialPort' = [serialPort EXCEPT !.open = FALSE]
                  /\ bpc' = "attempted"
                  /\ UNCHANGED <<line, buffer>>
             ELSE /\ \E err \in BOOLEAN,
                        n \in ReadSizes(Len(line), probeConfig.MaxBytes - Len(buffer)) :
                         /\ n > 0 \/ err
                         /\ buffer' = buffer \o SubSeq(line, 1, n)
                         /\ line' = SubSeq(line, n + 1, Len(line))
                         /\ bpc' = IF err THEN "judge" ELSE "read"
                  /\ UNCHANGED <<pr, serialPort>>
    /\ UNCHANGED <<probeConfig, probeCtx, baudIdx, wakeIdx, probeResult, attempts,
                   probeWire>>
    /\ UNCHANGED <<probeVars, sessionVars, engineVars, textVars, redactVars, portVars>>

JudgeLeavesOpen ==
    /\ bpc = "judge"
    /\ pr' = [pr EXCEPT !.RawData = buffer,
                        !.CleanedData = cleanSerialData(buffer),
                        !.Success = Meaningful(buffer)]
    /\ attempts' = [attempts EXCEPT ![Len(attempts)].Success = Meaningful(buffer)]
    /\ UNCHANGED serialPort
    /\ bpc' = "attempted"
    /\ UNCHANGED <<probeConfig, probeCtx, baudIdx, wakeIdx, line, buffer,
                   probeResult, probeWire>>
    /\ UNCHANGED <<probeVars, sessionVars, engineVars, textVars, redactVars, portVars>>

\* after the read loop: RawData, CleanedData and the success heuristic; the
\* deferred Close runs
Judge ==
    /\ bpc = "judge"
    /\ pr' = [pr EXCEPT !.RawData = buffer,
                        !.CleanedData = cleanSerialData(buffer),
                        !.Success = Meaningful(buffer)]
    /\ attempts' = [attempts EXCEPT ![Len(attempts)].Success = Meaningful(buffer)]
    /\ serialPort' = [serialPort EXCEPT !.open = FALSE]
    /\ bpc' = "attempted"
    /\ UNCHANGED <<probeConfig, probeCtx, baudIdx, wakeIdx, line, buffer,
                   probeResult, probeWire>>
    /\ UNCHANGED <<probeVars, sessionVars, engineVars, textVars, redactVars, portVars>>

\* the body of ProbePort's loop once probeSingleBaud has returned pr
Attempted ==
    /\ bpc = "attempted"
    /\ IF pr.Success
       THEN /\ \E a \in {AnalysisOf(pr.CleanedData)}, rxFound \in ScrapedModels :
                   probeResult' =
                       [pr EXCEPT !.Stage = a.stage,
                                  !.Candidates = a.candidates,
                                  !.Fingerprint =
                                      [Finalize(a.stage, a.candidates, rxFound,
                                                ExtractLastPromptLine(pr.CleanedData),
                                                "", "")
                                       EXCEPT !.Baud = probeConfig.BaudRates[baudIdx]]]
            /\ bpc' = "returned"
            /\ UNCHANGED baudIdx
       ELSE /\ probeResult' = IF Len(pr.RawData) > 0
                              THEN [probeResult EXCEPT !.RawData = pr.RawData,
                                                       !.CleanedData = pr.CleanedData]
                              ELSE probeResult
            /\ baudIdx' = NextBaud(baudIdx)
            /\ bpc' = "loop"
    /\ UNCHANGED <<probeConfig, probeCtx, wakeIdx, serialPort, line, buffer, pr,
                   attempts, probeWire>>
    /\ UNCHANGED <<probeVars, sessionVars, engineVars, textVars, redactVars, portVars>>

ExhaustedSilently ==
    /\ bpc = "loop"
    /\ baudIdx > Len(probeConfig.BaudRates)
    /\ probeResult' = [probeResult EXCEPT !.Fingerprint = NoResponse]
    /\ bpc' = "returned"
    /\ UNCHANGED <<probeConfig, probeCtx, baudIdx, wakeIdx, serialPort, line, buffer,
                   pr, attempts, probeWire>>
    /\ UNCHANGED <<probeVars, sessionVars, engineVars, textVars, redactVars, portVars>>

\* the loop over config.BaudRates is over: every baud failed
Exhausted ==
    /\ bpc = "loop"
    /\ baudIdx > Len(probeConfig.BaudRates)
    /\ probeResult' = [probeResult EXCEPT !.Error = "no response at any baud rate",
                                          !.Fingerprint = NoResponse]
    /\ bpc' = "returned"
    /\ UNCHANGED <<probeConfig, probeCtx, baudIdx, wakeIdx, serialPort, line, buffer,
                   pr, attempts, probeWire>>
    /\ UNCHANGED <<probeVars, sessionVars, engineVars, textVars, redactVars, portVars>>

\* ---- Write on its own, in every CR/LF mode

MaxWriteLen == 3   \* length of the data arguments of Write
MaxWrites   == 1   \* Write calls of one run

\* DefaultSessionConfig with each documented CRLFMode
WriteConfigs ==
    [PortPath : {"/dev/ttyUSB0"}, Baud : {9600}, DataBits : {8}, Parity : {"N"},
     StopBits : {1}, CRLFMode : {"CRLF", "CR", "LF"}, LocalEcho : {FALSE},
     LogToFile : {FALSE}]

WriteInputs ==
    Texts({"a", "\r", "\n"}, MaxWriteLen) \cup {<<"a", "\n", "b", "\r", "\n", "c">>}

\* a caller starts Write(data)
BeginWrite(c) ==
    /\ ops < MaxWrites
    /\ \E d \in WriteInputs : Begin(c, [op |-> "Write", data |-> d], "Write.Lock")
    /\ UNCHANGED <<config, mu, ctxDone, port, wire, dtrState, rtsState, bytesRead,
                   bytesWritten, logFile, logFileTxt, readChan, readChanClosed,
                   errChan, watchers, wchan, rpc, rdata, osReads, got, wgot, cret,
                   closeRets>>
    /\ UNCHANGED <<probeVars, baudVars, engineVars, textVars, redactVars, portVars>>

\* ---- SendBreak on its own

MaxBreaks == 2   \* SendBreak calls of one run

\* sessions of either speed, with every parity and both stop bit settings
BreakConfigs ==
    [PortPath : {"/dev/ttyUSB0"}, Baud : {9600, 115200}, DataBits : {8},
     Parity : {"N", "E", "O"}, StopBits : {1, 2}, CRLFMode : {"CRLF"},
     LocalEcho : {FALSE}, LogToFile : {FALSE}]

\* the duration arguments, in milliseconds
BreakInputs == {0, 5, 250, 255}

\* a caller starts SendBreak(duration)
BeginBreak(c) ==
    /\ ops < MaxBreaks
    /\ \E ms \in BreakInputs :
          Begin(c, [op |-> "SendBreak", ms |-> ms], "SendBreak.Lock")
    /\ UNCHANGED <<config, mu, ctxDone, port, wire, dtrState, rtsState, bytesRead,
                   bytesWritten, logFile, logFileTxt, readChan, readChanClosed,
                   errChan, watchers, wchan, rpc, rdata, osReads, got, wgot, cret,
                   closeRets>>
    /\ UNCHANGED <<probeVars, baudVars, engineVars, textVars, redactVars, portVars>>

\* ---- the Write and the ReadUntil of MaybeProbe, next to the reader

\* the goroutine that runs MaybeProbe
Prober == "c1"

\* the probes whose commands are sent
SentProbes == {safeProbes["Cisco:IOS"], safeProbes["Juniper:JUNOS"]}

\* MaybeProbe: sess.Write([]byte(cmd)) is called
BeginProbeWrite ==
    /\ ops = 0
    /\ \E probe \in SentProbes :
          Begin(Prober, [op |-> "Write", data |-> ProbeCommand(probe)], "Write.Lock")
    /\ UNCHANGED <<config, mu, ctxDone, port, wire, dtrState, rtsState, bytesRead,
                   bytesWritten, logFile, logFileTxt, readChan, readChanClosed,
                   errChan, watchers, wchan, rpc, rdata, osReads, got, wgot, cret,
                   closeRets>>
    /\ UNCHANGED <<probeVars, baudVars, engineVars, textVars, redactVars, portVars>>

\* MaybeProbe: the Write has returned nil and sess.ReadUntil(t, terminators...)
\* is called; since is the number of reads the reader has made by then
BeginProbeRead ==
    /\ cret.by = Prober /\ cret.op = "Write" /\ cret.err = NoError
    /\ Begin(Prober, [op |-> "ReadUntil", terminators |-> ProbeTerminators,
                      out |-> <<>>, err |-> NoError, since |-> Len(osReads)],
             "ReadUntil.register")
    /\ UNCHANGED <<config, mu, ctxDone, port, wire, dtrState, rtsState, bytesRead,
                   bytesWritten, logFile, logFileTxt, readChan, readChanClosed,
                   errChan, watchers, wchan, rpc, rdata, osReads, got, wgot, cret,
                   closeRets>>
    /\ UNCHANGED <<probeVars, baudVars, engineVars, textVars, redactVars, portVars>>

\* --------------------------------------------------- snapshot redaction

HexDigit == Digit \cup {"a","b","c","d","e","f","A","B","C","D","E","F"}

\* \d{1,3}
Octet == Cat(<<Cls(Digit), Opt(Cls(Digit)), Opt(Cls(Digit))>>)

\* [0-9A-Fa-f]{2}
HexPair == Cat(<<Cls(HexDigit), Cls(HexDigit)>>)

\* \b(?:\d{1,3}\.){3}\d{1,3}\b
ipPattern ==
    Cat(<<Wb, Octet, Ch("."), Octet, Ch("."), Octet, Ch("."), Octet, Wb>>)

\* \b[0-9A-Fa-f]{2}(?::[0-9A-Fa-f]{2}){5}\b
macPattern ==
    Cat(<<Wb, HexPair, Ch(":"), HexPair, Ch(":"), HexPair, Ch(":"), HexPair,
          Ch(":"), HexPair, Ch(":"), HexPair, Wb>>)

RedactedIP  == <<"[","R","E","D","A","C","T","E","D","-","I","P","]">>
RedactedMAC == <<"[","R","E","D","A","C","T","E","D","-","M","A","C","]">>

\* (*regexp.Regexp).ReplaceAllString(s, repl), from position i on: the
\* leftmost match gives way to repl and the search goes on behind it.  \b
\* looks at s itself.  Neither pattern matches the empty text, and from one
\* start each of them can end in one place only.
RECURSIVE ReplaceAllString(_, _, _, _)
ReplaceAllString(re, s, repl, i) ==
    IF i > Len(s) THEN <<>>
    ELSE LET ends == Ends(re, s, i) \ {i}
         IN  IF ends # {}
             THEN repl \o ReplaceAllString(re, s, repl,
                                           CHOOSE e \in ends : \A f \in ends : f <= e)
             ELSE <<s[i]>> \o ReplaceAllString(re, s, repl, i + 1)

scrubSensitiveOnlyIP(input) ==
    IF input = <<>> THEN input
    ELSE ReplaceAllString(ipPattern, input, RedactedIP, 1)

scrubSensitive(input) ==
    IF input = <<>> THEN input
    ELSE LET s == ReplaceAllString(ipPattern, input, RedactedIP, 1)
         IN  ReplaceAllString(macPattern, s, RedactedMAC, 1)

redactEvidence(lines) ==
    IF Len(lines) = 0 THEN lines
    ELSE [i \in 1..Len(lines) |-> scrubSensitive(lines[i])]

\* a nil pointer
Nil == [nil |-> TRUE]

\* redactSnapshot works on copies of the snapshot, of its console part and of
\* the detail in it, and on a new evidence list: what snap points to is after
\* the call what it was before (given), and the result is returned.
redactSnapshot(s) ==
    LET detailCopy ==
            [s.Console.Detail EXCEPT
                !.Model    = scrubSensitive(@),
                !.Prompt   = scrubSensitive(@),
                !.Evidence = redactEvidence(@)]
        consoleCopy ==
            [s.Console EXCEPT
                !.Fingerprint = scrubSensitive(@),
                !.Detail      = IF s.Console.Detail # Nil THEN detailCopy ELSE @]
    IN  [given  |-> s,
         result |-> [s EXCEPT !.Redacted = TRUE,
                              !.Console  = IF s.Console # Nil THEN consoleCopy ELSE @]]

MaxSegments == 3   \* pieces a text of a snapshot is put together from

\* the pieces: an address of each kind, three more octets, what can stand
\* between and beside addresses
Segments == {
    <<"1",".","2",".","3",".","4">>,
    <<"0","A",":","1","b",":","2","C",":","3","d",":","4","E",":","5","5">>,
    <<".","1",".","2",".","3">>,
    <<":","a","a">>,
    <<":">>,
    <<"1">>,
    <<"x">> }

RECURSIVE Joined(_)
Joined(n) ==
    IF n = 0 THEN {<<>>}
    ELSE Joined(n - 1) \cup {t \o g : t \in Joined(n - 1), g \in Segments}

SnapTexts == Joined(MaxSegments)

\* the model of a detail: none, a name with an address
SnapModels == {<<>>, <<"R","1","@","1","0",".","0",".","0",".","1","2">>}

\* the console parts of a snapshot around a text t and a model m; the
\* summary and the prompt carry t, the evidence carries both, and is empty
\* when there is no model
ConsoleSnapshots(t, m) ==
    LET detail(ev) == [Vendor |-> "Cisco", OS |-> "IOS", Model |-> m,
                       Stage |-> "prompt", Prompt |-> t, Baud |-> 9600,
                       Confidence |-> 90, Evidence |-> ev]
        console(d) == [Port |-> "/dev/ttyUSB0", Baud |-> 9600, Fingerprint |-> t,
                       Detail |-> d, BytesWritten |-> 2, BytesRead |-> Len(t),
                       LogPath |-> "", TranscriptHead |-> t, TranscriptTail |-> t]
    IN  {Nil, console(Nil), console(detail(IF m = <<>> THEN <<>> ELSE <<m, t>>))}

InitRedact ==
    /\ \E t \in SnapTexts, m \in SnapModels :
       \E c \in ConsoleSnapshots(t, m) :
          snapGiven = [Hostname |-> "host", Interface |-> "en0", Console |-> c,
                       Redacted |-> TRUE]
    /\ snap = snapGiven
    /\ redacted = Nil
    /\ redactedAgain = Nil
    /\ rspc = "start"

\* SaveSnapshot with the redacted flag set: snap = redactSnapshot(snap); the
\* result is kept in redacted
RedactOnce ==
    /\ rspc = "start"
    /\ \E r \in {redactSnapshot(snap)} :
          /\ snap' = r.given
          /\ redacted' = r.result
    /\ rspc' = "once"
    /\ UNCHANGED <<snapGiven, redactedAgain>>
    /\ UNCHANGED <<probeVars, sessionVars, baudVars, engineVars, textVars, portVars>>

\* the result saved once more
RedactAgain ==
    /\ rspc = "once"
    /\ \E r \in {redactSnapshot(redacted)} :
          /\ redacted' = r.given
          /\ redactedAgain' = r.result
    /\ rspc' = "done"
    /\ UNCHANGED <<snapGiven, snap>>
    /\ UNCHANGED <<probeVars, sessionVars, baudVars, engineVars, textVars, portVars>>


\* ------------------------------------------------------- port discovery

\* strings.HasPrefix, strings.TrimPrefix
HasPrefix(s, t) == Len(t) <= Len(s) /\ SubSeq(s, 1, Len(t)) = t

TrimPrefix(s, t) == IF HasPrefix(s, t) THEN SubSeq(s, Len(t) + 1, Len(s)) ELSE s

\* filepath.Base of a path that does not end in a separator
Base(path) ==
    IF path = <<>> THEN <<".">>
    ELSE LET cuts == {k \in 1..Len(path) : path[k] = "/"}
         IN  IF cuts = {} THEN path
             ELSE SubSeq(path, (CHOOSE k \in cuts : \A j \in cuts : j <= k) + 1,
                         Len(path))

bluetoothPatterns == <<
    <<"b","l","u","e","t","o","o","t","h">>,
    <<"a","i","r","p","o","d","s">>,
    <<"w","i","r","e","l","e","s","s">>,
    <<"w","l","a","n">>,
    <<"r","f","c","o","m","m">>,
    <<"h","c","i">> >>

debugPatterns == <<
    <<"d","e","b","u","g">>,
    <<"c","o","n","s","o","l","e">> >>

ContainsAny(lower, patterns) ==
    \E k \in 1..Len(patterns) : Contains(lower, patterns[k])

FilterBluetoothAndDebugCaseSensitive(os, path) ==
    LET lower == path
    IN  IF ContainsAny(lower, bluetoothPatterns) THEN FALSE
        ELSE IF ContainsAny(lower, debugPatterns) THEN FALSE
        ELSE IF os = "linux"
             THEN \/ HasPrefix(lower, <<"/","d","e","v","/","t","t","y","u","s","b">>)
                  \/ HasPrefix(lower, <<"/","d","e","v","/","t","t","y","a","c","m">>)
                  \/ HasPrefix(lower, <<"/","d","e","v","/","t","t","y","s">>)
             ELSE TRUE

\* TRUE when the port is to be included
FilterBluetoothAndDebug(os, path) ==
    LET lower == ToLower(path)
    IN  IF ContainsAny(lower, bluetoothPatterns) THEN FALSE
        ELSE IF ContainsAny(lower, debugPatterns) THEN FALSE
        ELSE IF os = "linux"
             THEN \/ HasPrefix(lower, <<"/","d","e","v","/","t","t","y","u","s","b">>)
                  \/ HasPrefix(lower, <<"/","d","e","v","/","t","t","y","a","c","m">>)
                  \/ HasPrefix(lower, <<"/","d","e","v","/","t","t","y","s">>)
             ELSE TRUE

generateFriendlyName(os, path) ==
    LET base == Base(path)
    IN  CASE os = "darwin" ->
                 IF HasPrefix(base, <<"t","t","y",".">>) THEN TrimPrefix(base, <<"t","t","y",".">>)
                 ELSE IF HasPrefix(base, <<"c","u",".">>) THEN TrimPrefix(base, <<"c","u",".">>)
                 ELSE base
          [] os = "linux" ->
                 IF HasPrefix(base, <<"t","t","y","U","S","B">>)
                 THEN <<"U","S","B"," ","S","e","r","i","a","l"," ">> \o TrimPrefix(base, <<"t","t","y","U","S","B">>)
                 ELSE IF HasPrefix(base, <<"t","t","y","A","C","M">>)
                 THEN <<"U","S","B"," ","A","C","M"," ">> \o TrimPrefix(base, <<"t","t","y","A","C","M">>)
                 ELSE IF HasPrefix(base, <<"t","t","y","S">>)
                 THEN <<"S","e","r","i","a","l"," ","P","o","r","t"," ">> \o TrimPrefix(base, <<"t","t","y","S">>)
                 ELSE base
          [] OTHER -> base

\* the hints in the order they are appended; strings.Join puts ", " between
detectHints(path) ==
    LET lower == ToLower(Base(path))
        hint(sub, name) == IF Contains(lower, sub) THEN <<name>> ELSE <<>>
    IN  hint(<<"f","t","d","i">>, "FTDI") \o hint(<<"c","p","2","1","0">>, "CP210x") \o hint(<<"c","h","3","4">>, "CH34x")
        \o hint(<<"p","l","2","3","0","3">>, "Prolific") \o hint(<<"u","s","b","s","e","r","i","a","l">>, "USB-Serial")
        \o hint(<<"u","s","b","m","o","d","e","m">>, "USB-Modem")

\* the loop of DiscoverPorts over the first n paths of list
RECURSIVE Included(_, _, _)
Included(os, list, n) ==
    IF n = 0 THEN <<>>
    ELSE Included(os, list, n - 1) \o
         (IF FilterBluetoothAndDebug(os, list[n])
          THEN << [Path |-> list[n],
                   FriendlyName |-> generateFriendlyName(os, list[n]),
                   Hints |-> detectHints(list[n])] >>
          ELSE <<>>)

MaxPorts == 2   \* ports the serial library reports

PortPaths == {
    <<"/","d","e","v","/","t","t","y","U","S","B","0">>,
    <<"/","d","e","v","/","t","t","y","A","C","M","0">>,
    <<"/","d","e","v","/","c","u",".","u","s","b","s","e","r","i","a","l","-","X","X","X","X">>,
    <<"/","d","e","v","/","t","t","y",".","u","s","b","s","e","r","i","a","l","-","X","X","X","X">>,
    <<"/","d","e","v","/","t","t","y",".","B","l","u","e","t","o","o","t","h","-","I","n","c","o","m","i","n","g","-","P","o","r","t">>,
    <<"/","d","e","v","/","c","u",".","A","i","r","P","o","d","s","-","S","P","P">>,
    <<"/","d","e","v","/","t","t","y",".","w","i","r","e","l","e","s","s">>,
    <<"/","d","e","v","/","d","e","b","u","g","-","c","o","n","s","o","l","e">>,
    <<"/","d","e","v","/","w","l","a","n","0">>,
    <<"/","d","e","v","/","r","f","c","o","m","m","0">>,
    <<"/","d","e","v","/","h","c","i","0">>,
    <<"/","d","e","v","/","t","t","y","S","0">>,
    <<"/","d","e","v","/","t","t","y","A","M","A","0">>,
    <<"/","d","e","v","/","t","t","y","U","S","B","_","D","E","B","U","G">>,
    <<"/","d","e","v","/","c","u",".","u","s","b","m","o","d","e","m","-","c","h","3","4">>,
    <<"C","O","M","3">> }

GOOS == {"darwin", "linux", "windows"}

InitDiscover ==
    /\ goos \in GOOS
    /\ portsList \in UNION {[1..k -> PortPaths] : k \in 0..MaxPorts}
    /\ portsErr \in BOOLEAN
    /\ ports = <<>>
    /\ dpc = "start"

DiscoverPorts ==
    /\ dpc = "start"
    /\ ports' = IF portsErr THEN <<>> ELSE Included(goos, portsList, Len(portsList))
    /\ dpc' = "done"
    /\ UNCHANGED <<goos, portsList, portsErr>>
    /\ UNCHANGED <<probeVars, sessionVars, baudVars, engineVars, textVars, redactVars>>


\* ----------------------------------------------------------- specifications

vars == <<cand, allowProbeInConfigMode, sessNil, sessCalls, ret, ppc, config, mu,
          ctxDone, port, wire, dtrState, rtsState, bytesRead, bytesWritten, logFile,
          logFileTxt, readChan, readChanClosed, errChan, watchers, wchan, rpc, rdata,
          osReads, got, wgot, cpc, cop, cret, closeRets, ops,
          probeConfig, probeCtx, bpc, baudIdx, wakeIdx, serialPort, line, buffer, pr,
          probeResult, attempts, probeWire,
          rxText, lastPrompt, detected, scored, ranked, finalIn, final, epc,
          normIn, normOnce, normTwice, npc,
          snapGiven, snap, redacted, redactedAgain, rspc,
          goos, portsList, portsErr, ports, dpc>>

\* no ProbePort call is in progress
IdleBaud ==
    /\ probeConfig = [BaudRates |-> <<>>, Timeout |-> 0, MaxBytes |-> 0]
    /\ probeCtx = [done |-> FALSE, atStart |-> FALSE]
    /\ bpc = "idle"
    /\ baudIdx = 0
    /\ wakeIdx = 0
    /\ serialPort = [open |-> FALSE, baud |-> 0]
    /\ line = <<>>
    /\ buffer = <<>>
    /\ pr = NoProbeResult
    /\ probeResult = NoProbeResult
    /\ attempts = <<>>
    /\ probeWire = <<>>

\* no text is going through the engine
IdleEngine ==
    /\ rxText = <<>>
    /\ lastPrompt = <<>>
    /\ detected = ""
    /\ scored = <<>>
    /\ ranked = <<>>
    /\ finalIn = [cands |-> <<>>, prompt |-> <<>>, probeOut |-> ""]
    /\ final = NoResult
    /\ epc = "idle"

IdleText ==
    /\ normIn = <<>>
    /\ normOnce = <<>>
    /\ normTwice = <<>>
    /\ npc = "idle"

\* no snapshot is being saved
IdleRedact ==
    /\ snapGiven = Nil
    /\ snap = Nil
    /\ redacted = Nil
    /\ redactedAgain = Nil
    /\ rspc = "idle"

\* no ports are being looked for
IdleDiscover ==
    /\ goos = "linux"
    /\ portsList = <<>>
    /\ portsErr = FALSE
    /\ ports = <<>>
    /\ dpc = "idle"

\* neither of the two is at work
IdleTools == IdleRedact /\ IdleDiscover

\* a candidate at rest in the variables of MaybeProbe: no probe is pending
IdleProbe ==
    /\ cand = ScoreSignature(1, 1, 0, <<"R", "1", "#">>)[1]
    /\ allowProbeInConfigMode = FALSE
    /\ sessNil = FALSE
    /\ sessCalls = <<>>
    /\ ret = [out |-> NoOutput, upd |-> <<>>, err |-> NoError]
    /\ ppc = "done"

\* the engine on its own: the session of the other specification stays as
\* NewSession left it
InitProbeSpec ==
    /\ InitProbe
    /\ InitSession
    /\ config.CRLFMode = "CRLF"
    /\ ~config.LogToFile
    /\ IdleBaud /\ IdleEngine /\ IdleText /\ IdleTools

NextProbe == MaybeProbe

SpecProbe == InitProbeSpec /\ [][NextProbe]_vars

\* the session on its own: no probe is pending
InitSessionSpec ==
    /\ InitSession
    /\ IdleProbe
    /\ IdleBaud /\ IdleEngine /\ IdleText /\ IdleTools

CallerStep(c) ==
    \/ Call(c)
    \/ WriteLock(c)
    \/ Write(c)
    \/ EmulateBreakLower(c)
    \/ EmulateBreakRestore(c)
    \/ SetDTRPort(c)
    \/ SetDTRState(c)
    \/ SetRTSPort(c)
    \/ SetRTSState(c)
    \/ GetDTRRLock(c)
    \/ GetDTR(c)
    \/ GetRTSRLock(c)
    \/ GetRTS(c)
    \/ registerWatcher(c)
    \/ ReadUntilDone(c)
    \/ ReadUntilTimeout(c)
    \/ ReadUntilChunk(c)
    \/ unregisterWatcher(c)
    \/ CloseCancel(c)
    \/ Close(c)

readLoop ==
    \/ ReadLoopRead
    \/ ReadLoopError
    \/ ReadLoopCount
    \/ ReadLoopSend
    \/ Broadcast

NextSession ==
    \/ \E c \in Callers : CallerStep(c)
    \/ readLoop
    \/ ReceiveData
    \/ ReceiveError

SpecSession == InitSessionSpec /\ [][NextSession]_vars

\* the engine on a text: Analyze, at most one MaybeProbe, Finalize
InitEngineSpec ==
    /\ InitEngine
    /\ IdleProbe
    /\ \E cfg \in Configs : ~cfg.LogToFile /\ NewSession(cfg)
    /\ IdleBaud /\ IdleText /\ IdleTools

NextEngine ==
    \/ AnalyzeStep
    \/ MaybeProbe
    \/ FinalizeStep

SpecEngine == InitEngineSpec /\ [][NextEngine]_vars

\* ProbePort on its own
InitBaudSpec ==
    /\ InitBaud
    /\ IdleProbe
    /\ \E cfg \in Configs : ~cfg.LogToFile /\ NewSession(cfg)
    /\ IdleEngine /\ IdleText /\ IdleTools

NextBaudProbe ==
    \/ CancelCtx
    \/ OpenPort
    \/ SetReadTimeout
    \/ WakeUp
    \/ ReadResponse
    \/ Judge
    \/ Attempted
    \/ Exhausted

SpecBaud == InitBaudSpec /\ [][NextBaudProbe]_vars

\* Normalize on its own
InitTextSpec ==
    /\ InitText
    /\ IdleProbe
    /\ \E cfg \in Configs : ~cfg.LogToFile /\ NewSession(cfg)
    /\ IdleBaud /\ IdleEngine /\ IdleTools

NextText == NormalizeOnce \/ NormalizeAgain

SpecText == InitTextSpec /\ [][NextText]_vars

\* SendBreak on its own: two callers, every mode a session can be opened in
InitBreakSpec ==
    /\ \E cfg \in BreakConfigs : NewSession(cfg)
    /\ IdleProbe
    /\ IdleBaud /\ IdleEngine /\ IdleText /\ IdleTools

NextBreak ==
    \E c \in Callers :
        \/ BeginBreak(c)
        \/ EmulateBreakLower(c)
        \/ EmulateBreakRestore(c)

SpecBreak == InitBreakSpec /\ [][NextBreak]_vars

\* the session calls of MaybeProbe with the reader at work: no transcripts,
\* nobody closes the session
InitProbeIOSpec ==
    /\ \E cfg \in Configs : ~cfg.LogToFile /\ NewSession(cfg)
    /\ IdleProbe
    /\ IdleBaud /\ IdleEngine /\ IdleText /\ IdleTools

NextProbeIO ==
    \/ BeginProbeWrite
    \/ WriteLock(Prober)
    \/ Write(Prober)
    \/ BeginProbeRead
    \/ registerWatcher(Prober)
    \/ ReadUntilTimeout(Prober)
    \/ ReadUntilChunk(Prober)
    \/ unregisterWatcher(Prober)
    \/ ReadLoopRead
    \/ ReadLoopError
    \/ ReadLoopCount
    \/ ReadLoopSend
    \/ Broadcast
    \/ ReceiveData
    \/ ReceiveError

SpecProbeIO == InitProbeIOSpec /\ [][NextProbeIO]_vars

\* redactSnapshot on its own
InitRedactSpec ==
    /\ InitRedact
    /\ IdleProbe
    /\ \E cfg \in Configs : ~cfg.LogToFile /\ NewSession(cfg)
    /\ IdleBaud /\ IdleEngine /\ IdleText /\ IdleDiscover

NextRedact == RedactOnce \/ RedactAgain

SpecRedact == InitRedactSpec /\ [][NextRedact]_vars

\* DiscoverPorts on its own
InitDiscoverSpec ==
    /\ InitDiscover
    /\ IdleProbe
    /\ \E cfg \in Configs : ~cfg.LogToFile /\ NewSession(cfg)
    /\ IdleBaud /\ IdleEngine /\ IdleText /\ IdleRedact

NextDiscover == DiscoverPorts

SpecDiscover == InitDiscoverSpec /\ [][NextDiscover]_vars

\* Write on its own: one caller, every CR/LF mode, every short text
InitWriteSpec ==
    /\ \E cfg \in WriteConfigs : NewSession(cfg)
    /\ IdleProbe
    /\ IdleBaud /\ IdleEngine /\ IdleText /\ IdleTools

NextWrite ==
    \E c \in Callers :
        \/ BeginWrite(c)
        \/ WriteLock(c)
        \/ Write(c)

SpecWrite == InitWriteSpec /\ [][NextWrite]_vars

\* ------------------------------------------------------------------ claims

ConfigMarker == <<"(", "c", "o", "n", "f", "i", "g">>

InConfigMode(c) == Contains(ToLower(c.Prompt), ConfigMarker)

NothingDone == sessCalls = <<>> /\ ret.out = NoOutput /\ ret.upd = <<>>

\* C1: with the policy flag allow-probe-in-config-mode false and a candidate
\* whose lower-cased prompt contains "(config", a call of MaybeProbe returns
\* nothing and has written nothing to the session.
C1_ConfigModeRefused ==
    (ppc = "done" /\ ~allowProbeInConfigMode /\ InConfigMode(cand)) => NothingDone

\* the guard of the candidate's probe, matched against its prompt as
\* regexp.MatchString does
GuardMismatch(c) ==
    /\ c.NextSafeProbe # NilProbe
    /\ ~MatchString(safeProbes[c.NextSafeProbe].Guard, c.Prompt)

PreconditionFails(c) ==
    \/ c.NextSafeProbe = NilProbe
    \/ c.stage # StagePrompt
    \/ c.Prob < 55
    \/ GuardMismatch(c)

\* C2: when the candidate has no safe probe, or its stage is not Prompt, or
\* its prob is below 0.55, or its prompt does not match the probe's guard,
\* MaybeProbe makes no Write and no ReadUntil call on the session and returns
\* the empty output with no updated candidate and no error.
C2_NoCallWhenPreconditionFails ==
    (ppc = "done" /\ PreconditionFails(cand)) => (NothingDone /\ ret.err = NoError)

\* a candidate at a prompt, scored high enough, turned away by the guard alone
C2_Witness ==
    /\ ppc = "done"
    /\ ~sessNil
    /\ cand.stage = StagePrompt
    /\ cand.Prob >= 55
    /\ GuardMismatch(cand)
    /\ NothingDone

WritesOf(calls) == SelectSeq(calls, LAMBDA call : call.op = "Write")

\* C3: one call of MaybeProbe makes at most one Write, and the argument of
\* that Write is the Command of the catalogue entry of the candidate's
\* vendor and OS with "\r\n" appended.
C3_OneCatalogueWrite ==
    ppc = "done" =>
        /\ Len(WritesOf(sessCalls)) <= 1
        /\ \A k \in 1..Len(sessCalls) :
               sessCalls[k].op = "Write" =>
                   /\ safeProbeKey(cand.Vendor, cand.OS) \in ProbeKeys
                   /\ sessCalls[k].arg =
                          safeProbes[safeProbeKey(cand.Vendor, cand.OS)].Command
                              \o <<"\r", "\n">>

\* a probe was written and its reply read
C3_Witness ==
    /\ ppc = "done"
    /\ Len(sessCalls) = 2
    /\ sessCalls[1].op = "Write"
    /\ ret.upd # <<>>

\* C4: after the first Close the port and both transcripts are closed, and a
\* second (or concurrent) Close changes nothing further: no resource is closed
\* a second time and no Close reports a failure.
C4_CloseIdempotent ==
    /\ closeRets # <<>> => (~port.open /\ ~logFile.open /\ ~logFileTxt.open)
    /\ port.closes <= 1
    /\ logFile.closes <= 1
    /\ logFileTxt.closes <= 1
    /\ \A k \in 1..Len(closeRets) : closeRets[k] = NoError

EndsWithTerminator(out, terms) ==
    \E k \in 1..Len(terms) : terms[k] # <<>> /\ HasSuffix(TrimSpace(out), terms[k])

\* C5: a ReadUntil call returns without error only when the whitespace-trimmed
\* accumulated text ends with one of the supplied terminators, returns the
\* timeout error with the text received so far when the timer ends it, and
\* returns the session-closed error with the text received so far when the
\* session was closed.
C5_ReadUntilResult ==
    \A c \in Callers :
        cpc[c] = "ReadUntil.unregister" =>
            /\ cop[c].out = Concat(wgot[c])
            /\ \/ /\ cop[c].err = NoError
                  /\ EndsWithTerminator(cop[c].out, cop[c].terminators)
               \/ cop[c].err = "probe read timeout"
               \/ cop[c].err = "session closed" /\ ctxDone

\* C6: once the session is closed and the reader has stopped, a consumer that
\* has drained ReadChan() finds the channel closed (the sequence ends) rather
\* than a channel that stays open and empty.
C6_ReadChanEnds ==
    (closeRets # <<>> /\ rpc = "return" /\ readChan = <<>>) => readChanClosed

\* the reads readLoop has taken through its bookkeeping
Processed == IF rpc = "count" THEN SubSeq(osReads, 1, Len(osReads) - 1) ELSE osReads

RECURSIVE SumLen(_)
SumLen(chunks) ==
    IF chunks = <<>> THEN 0 ELSE Len(Head(chunks).data) + SumLen(Tail(chunks))

ReadEntries(f) == SelectSeq(f.data, LAMBDA e : e.by = "readLoop")

\* C7: the reader is never held up by a consumer (its send to ReadChan() and
\* its broadcast go through whether or not the buffers are full), and whatever
\* is dropped, bytesRead counts every byte of every non-empty read and, with
\* logging enabled, both transcripts record every one of those reads.
C7_ReaderRecordsEveryRead ==
    /\ rpc = "send" => ENABLED ReadLoopSend
    /\ (rpc = "broadcast" /\ CanRLock) => ENABLED Broadcast
    /\ bytesRead = SumLen(Processed)
    /\ config.LogToFile =>
           /\ Len(ReadEntries(logFile)) = Len(Processed)
           /\ Len(ReadEntries(logFileTxt)) = Len(Processed)
           /\ \A k \in 1..Len(Processed) :
                  /\ ReadEntries(logFile)[k].data = Processed[k].data
                  /\ ReadEntries(logFileTxt)[k].data = cleanSerialData(Processed[k].data)

\* whole chunks of osReads, in the order they were read
InOrder(chunks) ==
    /\ \A k \in 1..Len(chunks) :
           /\ chunks[k].id \in 1..Len(osReads)
           /\ chunks[k] = osReads[chunks[k].id]
           /\ Len(chunks[k].data) > 0
    /\ \A j, k \in 1..Len(chunks) : j < k => chunks[j].id < chunks[k].id

InWrite(c)  == cpc[c] = "Write.port"
InBreak(c)  == cpc[c] = "emulateBreak.restore"
InSetter(c) == cpc[c] \in {"SetDTR.state", "SetRTS.state"}
InGetter(c) == cpc[c] \in {"GetDTR.read", "GetRTS.read"}
Exclusive(c) == InWrite(c) \/ InBreak(c) \/ InSetter(c)

\* C9: no two of Write, SetDTR, SetRTS and SendBreak are inside the session at
\* once, so no Write goes to the port while SendBreak holds it at the lowered
\* baud, and GetDTR / GetRTS read the line state only while no setter is
\* between its port call and its update of that state.
C9_MutualExclusion ==
    /\ \A c, d \in Callers : (c # d /\ Exclusive(c)) => ~Exclusive(d)
    /\ \A c, d \in Callers : InGetter(c) => ~Exclusive(d)
    /\ \A c \in Callers : Exclusive(c) => mu = [w |-> c, r |-> {}]
    /\ \A c, d \in Callers : InWrite(c) => ~InBreak(d)
    /\ (\E c \in Callers : InBreak(c)) => port.mode.BaudRate = config.Baud \div 10

\* a Write waits for the lock while SendBreak holds the port at the lowered baud
C9_Witness ==
    \E c, d \in Callers :
        /\ InBreak(c)
        /\ cpc[d] = "Write.Lock"
        /\ port.mode.BaudRate # config.Baud

Observable ==
    { chunk.id : chunk \in
        {got[k] : k \in 1..Len(got)} \cup {readChan[k] : k \in 1..Len(readChan)}
        \cup UNION {{wgot[c][k] : k \in 1..Len(wgot[c])} : c \in Callers}
        \cup UNION {{wchan[c][k] : k \in 1..Len(wchan[c])} : c \in Callers} }

\* C10: bytesRead and bytesWritten never decrease; a Write that returns
\* without error adds to bytesWritten exactly the count the port accepted, and
\* nothing else changes bytesWritten; when a chunk becomes observable on
\* ReadChan() or a watcher, bytesRead already includes its length.
C10_Counters ==
    [][ /\ bytesRead' >= bytesRead
        /\ bytesWritten' >= bytesWritten
        /\ \A c \in Callers :
               (InWrite(c) /\ cpc'[c] = "idle" /\ cret'.err = NoError) =>
                   /\ bytesWritten' = bytesWritten + cret'.out
                   /\ wire' = Append(wire, [data |-> transformLineEndings(
                                                config.CRLFMode, cop[c].data),
                                            baud |-> port.mode.BaudRate,
                                            by |-> "Write"])
                   /\ cret'.out = Len(wire'[Len(wire')].data)
        /\ bytesWritten' # bytesWritten =>
               \E c \in Callers : InWrite(c) /\ cpc'[c] = "idle" /\ cret'.err = NoError
        /\ \A id \in Observable' :
               bytesRead' >= SumLen(SubSeq(osReads', 1, id)) ]_vars

\* a Write was counted, and a chunk that was counted reached the consumer
C10_Witness ==
    /\ bytesWritten = 3
    /\ cret.op = "Write"
    /\ cret.err = NoError
    /\ got # <<>>
    /\ bytesRead = SumLen(osReads)
    /\ Len(osReads) = 2

RECURSIVE Join(_)
Join(parts) == IF parts = <<>> THEN <<>> ELSE Head(parts) \o Join(Tail(parts))

\* a "\n" that no "\r" precedes becomes "\r\n"; every other byte stays
LoneLFToCRLF(data) ==
    Join([k \in 1..Len(data) |->
            IF data[k] = "\n" /\ (k = 1 \/ data[k - 1] # "\r")
            THEN <<"\r", "\n">> ELSE <<data[k]>>])

ExpectedOnWire(mode, data) ==
    CASE mode = "CRLF" -> LoneLFToCRLF(data)
      [] mode = "CR"   -> [k \in 1..Len(data) |-> IF data[k] = "\n" THEN "\r" ELSE data[k]]
      [] mode = "LF"   -> data

\* C11: a Write that returns without error has put on the wire, in CRLF mode,
\* its input with every lone "\n" replaced by "\r\n" and every existing "\r\n"
\* left as it is; in CR mode its input with every "\n" replaced by "\r"; in LF
\* mode its input unchanged.
C11_WriteLineEndings ==
    [][ \A c \in Callers :
            (InWrite(c) /\ cpc'[c] = "idle" /\ cret'.err = NoError) =>
                LET expected == ExpectedOnWire(config.CRLFMode, cop[c].data)
                IN  wire' = IF expected = <<>> THEN wire
                            ELSE Append(wire, [data |-> expected,
                                               baud |-> port.mode.BaudRate,
                                               by |-> "Write"]) ]_vars

\* probabilities and confidences are in hundredths: [0, 1] is 0..100
InUnit(v) == v \in 0..100

\* C15: every Candidate the Scorer emits, every Candidate Analyze returns,
\* every updated Candidate MaybeProbe returns and every Result Finalize
\* returns has its prob / confidence between 0 and 1 inclusive.
C15_ConfidenceInUnit ==
    /\ \A k \in 1..Len(scored) : InUnit(scored[k].Prob)
    /\ \A k \in 1..Len(ranked) : InUnit(ranked[k].Prob)
    /\ \A k \in 1..Len(ret.upd) : InUnit(ret.upd[k].Prob)
    /\ InUnit(final.Confidence)

\* a signature whose three lists all fired (raw score above 1) was scored, a
\* probe's boost was added to a candidate already at 1, and Finalize was
\* handed a top candidate whose Prob lies outside [0, 1]
C15_Witness ==
    /\ epc = "done"
    /\ \E k \in 1..Len(scored) : Len(scored[k].Evidence) = 3 /\ scored[k].Prob = 100
    /\ \E k \in 1..Len(ret.upd) : cand.Prob = 100 /\ ret.upd[k].Evidence # cand.Evidence
                                  /\ ret.upd[k].Prob = 100
    /\ finalIn.cands # <<>>
    /\ ~InUnit(finalIn.cands[1].Prob)
    /\ final.Confidence \in {0, 100}

\* C16: the evidence list of every Result Finalize returns has at most three
\* entries, none of them empty, each of them whitespace-trimmed, and no two
\* of them equal, with and without probe output.
C16_FinalEvidenceShortlisted ==
    epc = "done" =>
        /\ Len(final.Evidence) <= 3
        /\ \A k \in 1..Len(final.Evidence) :
               /\ final.Evidence[k] # ""
               /\ TrimString(final.Evidence[k]) = final.Evidence[k]
               /\ \A j \in 1..Len(final.Evidence) :
                      final.Evidence[j] = final.Evidence[k] => j = k

\* Finalize was given probe output and a top candidate with more than three
\* evidence entries, among them an empty one, an untrimmed one and a repeated
\* one, and returned three
C16_Witness ==
    /\ epc = "done"
    /\ finalIn.probeOut # ""
    /\ finalIn.cands # <<>>
    /\ LET evs == finalIn.cands[1].Evidence
       IN  /\ Len(evs) > 3
           /\ \E k \in 1..Len(evs) : evs[k] = ""
           /\ \E k \in 1..Len(evs) : evs[k] # "" /\ TrimString(evs[k]) # evs[k]
           /\ \E j, k \in 1..Len(evs) : j # k /\ TrimString(evs[j]) = TrimString(evs[k])
    /\ Len(final.Evidence) = 3

\* signature k has a PreLogin or Login pattern that matches the normalized rx
\* text, or a Prompt pattern that matches the prompt line
Fired(k) ==
    LET facts == FactsOf(rxText)
    IN  \/ facts.fire.pre[k] > 0
        \/ facts.fire.login[k] > 0
        \/ FirstPrompt(k, promptLineOf(facts.last, lastPrompt)) > 0

\* C17: GetCandidates emits one Candidate for a signature exactly when one of
\* the signature's pre-login, login or prompt patterns fired, whatever the
\* signature's weight, and no Candidate it emits has an empty evidence list.
C17_CandidateIffFired ==
    epc # "analyze" =>
        /\ \A k \in 1..N :
               Fired(k) <=> \E j \in 1..Len(scored) :
                               /\ scored[j].Vendor = signatureRegistry[k].Vendor
                               /\ scored[j].OS = signatureRegistry[k].OS
        /\ Len(scored) = Cardinality({k \in 1..N : Fired(k)})
        /\ \A j \in 1..Len(scored) : scored[j].Evidence # <<>>

\* some signatures fired and were emitted, others of positive weight did not
\* fire and were left out
C17_Witness ==
    /\ epc # "analyze"
    /\ Len(scored) >= 2
    /\ \E k \in 1..N : ~Fired(k) /\ signatureRegistry[k].Weight > 0

\* C18: the candidates Analyze returns are in descending order of prob, and
\* candidates of equal prob are in ascending order of their vendor strings.
C18_AnalyzeSorted ==
    \A j, k \in 1..Len(ranked) :
        j < k =>
            \/ ranked[j].Prob > ranked[k].Prob
            \/ /\ ranked[j].Prob = ranked[k].Prob
               /\ VendorRank(ranked[j].Vendor) <= VendorRank(ranked[k].Vendor)

\* Analyze returned at least three candidates in another order than the
\* registry's, two of them of equal prob and different vendors
C18_Witness ==
    /\ Len(ranked) >= 3
    /\ \E k \in 1..Len(ranked) : ranked[k].Vendor # scored[k].Vendor
    /\ \E j, k \in 1..Len(ranked) :
           /\ ranked[j].Prob = ranked[k].Prob
           /\ ranked[j].Vendor # ranked[k].Vendor
    /\ \E j, k \in 1..Len(ranked) : ranked[j].Prob # ranked[k].Prob

\* what DetectStage looks at: a boot marker in the normalized rx text, a
\* prompt line that matches a prompt pattern, a login line among the last four
BootSeen   == FactsOf(rxText).boot
PromptSeen == matchPrompt(promptLineOf(FactsOf(rxText).last, lastPrompt))
LoginSeen  == FactsOf(rxText).login

\* C19: the stage Analyze reports is Boot when the rx text holds a boot
\* marker, even if the prompt line matches a prompt pattern; otherwise Prompt
\* when the prompt line matches, even if a login line is present; otherwise
\* Login when a login line is present; otherwise PreLogin.
C19_StageOrder ==
    epc # "analyze" =>
        /\ BootSeen => detected = StageBoot
        /\ (~BootSeen /\ PromptSeen) => detected = StagePrompt
        /\ (~BootSeen /\ ~PromptSeen /\ LoginSeen) => detected = StageLogin
        /\ (~BootSeen /\ ~PromptSeen /\ ~LoginSeen) => detected = StagePreLogin

\* an rx text with a boot marker was analyzed together with a prompt line
\* that matches a prompt pattern
C19_Witness ==
    /\ epc # "analyze"
    /\ BootSeen
    /\ PromptSeen
    /\ detected = StageBoot

\* C20: Normalize applied to its own result gives that result again.
C20_NormalizeIdempotent ==
    npc = "done" => normTwice = normOnce

\* C12: ProbePort attempts the bauds of config.BaudRates in list order, one
\* attempt per position; an attempt that meets the success heuristic is the
\* last one made, and ProbePort then returns Success with that baud as the
\* result's Baud and as the Fingerprint's Baud, every earlier position having
\* been attempted and failed, and no later one opened.
C12_FirstSuccessfulBaud ==
    /\ Len(attempts) <= Len(probeConfig.BaudRates)
    /\ \A j \in 1..Len(attempts) :
           /\ attempts[j].idx = j
           /\ attempts[j].baud = probeConfig.BaudRates[j]
           /\ attempts[j].Success => j = Len(attempts)
    /\ (bpc = "returned" /\ probeResult.Success) =>
           /\ attempts # <<>>
           /\ attempts[Len(attempts)].Success
           /\ probeResult.Baud = probeConfig.BaudRates[Len(attempts)]
           /\ probeResult.Fingerprint.Baud = probeConfig.BaudRates[Len(attempts)]

\* ProbePort returned Success from the second baud of three: the first was
\* attempted and failed, the third was never opened
C12_Witness ==
    /\ bpc = "returned"
    /\ probeResult.Success
    /\ Len(attempts) = 2
    /\ Len(probeConfig.BaudRates) = 3
    /\ ~attempts[1].Success
    /\ probeResult.Baud = 9600

\* C13: when ProbePort returns without Success, its Error is not nil and its
\* Fingerprint has vendor and os "Unknown", stage PreLogin, confidence 0 and
\* the evidence "No response at configured baud rates"; every configured baud
\* was attempted and failed.
C13_ExhaustedResult ==
    (bpc = "returned" /\ ~probeResult.Success) =>
        /\ probeResult.Error # NoError
        /\ probeResult.Fingerprint.Vendor = "Unknown"
        /\ probeResult.Fingerprint.OS = "Unknown"
        /\ probeResult.Fingerprint.Stage = StagePreLogin
        /\ probeResult.Fingerprint.Confidence = 0
        /\ \E k \in 1..Len(probeResult.Fingerprint.Evidence) :
               probeResult.Fingerprint.Evidence[k] = "No response at configured baud rates"
        /\ Len(attempts) = Len(probeConfig.BaudRates)
        /\ \A j \in 1..Len(attempts) : ~attempts[j].Success

\* ProbePort returned without Success after a baud that could not be opened
\* and a baud that answered with too little to count
C13_Witness ==
    /\ bpc = "returned"
    /\ ~probeResult.Success
    /\ \E j \in 1..Len(attempts) : ~attempts[j].opened
    /\ \E j \in 1..Len(attempts) : attempts[j].opened
    /\ probeResult.RawData # <<>>

\* C14: when the context is already cancelled as ProbePort is called, no
\* attempt succeeds, ProbePort does not return Success, and no wake-up
\* sequence is written to the port.
C14_CancelledContext ==
    probeCtx.atStart =>
        /\ probeWire = <<>>
        /\ ~pr.Success
        /\ ~probeResult.Success
        /\ \A j \in 1..Len(attempts) : ~attempts[j].Success

\* ProbePort returned under a context cancelled from the start, after it had
\* opened the port at two bauds
C14_Witness ==
    /\ probeCtx.atStart
    /\ bpc = "returned"
    /\ Len(attempts) >= 2
    /\ \A j \in 1..Len(attempts) : attempts[j].opened

\* C23: a MaybeProbe whose Write or ReadUntil fails returns no updated
\* candidate, so a Finalize that follows is given the candidates as they were
\* before the probe; after a failed Write there is that one Write and no
\* ReadUntil, after a failed ReadUntil one Write and one ReadUntil.
C23_FailedProbeNoUpdate ==
    (ppc = "done" /\ ret.err # NoError) =>
        /\ ret.upd = <<>>
        /\ sessCalls # <<>>
        /\ sessCalls[1].op = "Write"
        /\ \A k \in 2..Len(sessCalls) : sessCalls[k].op # "Write"
        /\ ret.err \in WriteErrors => Len(sessCalls) = 1
        /\ ret.err \in ReadErrors =>
               Len(sessCalls) = 2 /\ sessCalls[2].op = "ReadUntil"
        /\ epc = "done" => finalIn.cands \in {ranked} \cup CallerCandidates

\* a probe's ReadUntil timed out with output an Expect regex matches, and
\* Finalize ran on the candidates Analyze had returned
C23_Witness ==
    /\ ppc = "done"
    /\ epc = "done"
    /\ ret.err = "probe read timeout"
    /\ ret.out.expect
    /\ finalIn.cands = ranked
    /\ final.Confidence = cand.Prob

\* C24: the candidate a completed probe returns has the vendor, os, stage
\* and prompt of the candidate given and its evidence entries in front; the
\* next evidence entry is "<probe name> probe expect matched" and the prob is
\* the given prob plus 0.2, at most 1, when an Expect regex matched the
\* output, else "<probe name> probe output recorded" and the same prob; the
\* prob is never lower than the given one.
C24_CompletedProbeUpdate ==
    (ppc = "done" /\ ret.upd # <<>>) =>
        LET u    == ret.upd[1]
            n    == Len(cand.Evidence)
            name == safeProbes[cand.NextSafeProbe].Name
        IN  /\ ret.err = NoError
            /\ u.Vendor = cand.Vendor
            /\ u.OS = cand.OS
            /\ u.stage = cand.stage
            /\ u.Prompt = cand.Prompt
            /\ Len(u.Evidence) > n
            /\ SubSeq(u.Evidence, 1, n) = cand.Evidence
            /\ u.Prob >= cand.Prob
            /\ ret.out.expect =>
                   /\ u.Evidence[n + 1] = name \o " probe expect matched"
                   /\ u.Prob = IF cand.Prob + 20 > 100 THEN 100 ELSE cand.Prob + 20
            /\ ~ret.out.expect =>
                   /\ u.Evidence[n + 1] = name \o " probe output recorded"
                   /\ u.Prob = cand.Prob

\* a probe completed with output an Expect regex matches, and raised the prob
C24_Witness ==
    /\ ppc = "done"
    /\ ret.upd # <<>>
    /\ ret.out.expect
    /\ cand.Prob < 100
    /\ ret.upd[1].Prob = cand.Prob + 20

\* the signature a Candidate of the scorer was emitted for
SigOf(c) ==
    CHOOSE k \in 1..N : /\ signatureRegistry[k].Vendor = c.Vendor
                         /\ signatureRegistry[k].OS = c.OS

\* C25: the prob of every Candidate GetCandidates emits is the signature's
\* weight plus 0.5 if a pre-login pattern fired, plus 0.2 if a login pattern
\* fired, plus 0.35 if a prompt pattern fired, cut to at most 1; its evidence
\* has one entry for each list that fired, naming the first pattern of the
\* list that fired, in the order pre-login, login, prompt.
C25_ScoreOfSignature ==
    epc # "analyze" =>
        \A j \in 1..Len(scored) :
            LET k     == SigOf(scored[j])
                sig   == signatureRegistry[k]
                facts == FactsOf(rxText)
                pre   == facts.fire.pre[k]
                login == facts.fire.login[k]
                prm   == FirstPrompt(k, promptLineOf(facts.last, lastPrompt))
                sum   == sig.Weight + (IF pre > 0 THEN 50 ELSE 0)
                                    + (IF login > 0 THEN 20 ELSE 0)
                                    + (IF prm > 0 THEN 35 ELSE 0)
            IN  /\ scored[j].Prob = IF sum > 100 THEN 100 ELSE sum
                /\ scored[j].Evidence =
                       (IF pre > 0 THEN <<"prelogin: " \o sig.PreLogin[pre]>> ELSE <<>>)
                    \o (IF login > 0 THEN <<"login: " \o sig.Login[login]>> ELSE <<>>)
                    \o (IF prm > 0 THEN <<"prompt: " \o sig.Prompt[prm].Label>> ELSE <<>>)

\* the two pre-login patterns of the first signature both match the rx text,
\* and its candidate has the evidence of the first of them and of a prompt
\* pattern, at prob 0.05 + 0.5 + 0.35
C25_Witness ==
    /\ epc # "analyze"
    /\ scored # <<>>
    /\ SigOf(scored[1]) = 1
    /\ scored[1].Prob = 90
    /\ Len(scored[1].Evidence) = 2
    /\ FactsOf(rxText).fire.pre[1] = 1
    /\ MatchString(preLoginRegex[1][2], Normalize(rxText))

\* C26: the Result Finalize returns for the candidates Analyze returned, when
\* there is one, has the prompt and the stage of the first of them.
C26_PromptAndStageOfTop ==
    (epc = "done" /\ finalIn.cands = ranked /\ ranked # <<>>) =>
        /\ final.Prompt = ranked[1].Prompt
        /\ final.Stage = ranked[1].stage

\* C27: the Result Finalize returns for an empty candidate list has vendor and
\* os "Unknown", confidence 0, the one evidence entry "no candidates", no
\* model, the stage it was given and the trimmed prompt it was given, with
\* and without probe output.
C27_NoCandidates ==
    (epc = "done" /\ finalIn.cands = <<>>) =>
        final = [Vendor |-> "Unknown", OS |-> "Unknown", Model |-> "",
                 Prompt |-> TrimSpace(finalIn.prompt), Stage |-> detected,
                 Baud |-> 0, Confidence |-> 0, Evidence |-> <<"no candidates">>]

\* Finalize was given no candidates, probe output, and a prompt with white
\* space around it
C27_Witness ==
    /\ epc = "done"
    /\ finalIn.cands = <<>>
    /\ finalIn.probeOut # ""
    /\ TrimSpace(finalIn.prompt) # <<>>
    /\ TrimSpace(finalIn.prompt) # finalIn.prompt
    /\ final.Prompt = TrimSpace(finalIn.prompt)

NonEmpty(l) == l # <<>>

\* a login pattern matches one of the last four non-empty lines of rx
LoginInLastFourNonEmpty(rx) ==
    \E lines \in {SelectSeq(Split(rx), NonEmpty)} :
        \E i \in 1..Len(lines) :
            /\ i >= Len(lines) - 3
            /\ \E k \in 1..Len(loginPatterns) : MatchString(loginPatterns[k], lines[i])

LoginInLastFourMemo == [rx \in RxTexts |-> LoginInLastFourNonEmpty(Normalize(rx))]

\* C28: when the rx text has no boot marker and the prompt line matches no
\* prompt pattern, the stage is Login exactly when a login pattern matches
\* one of the last four non-empty lines of the normalized rx text; empty
\* lines, the one behind a trailing newline included, do not count.
C28_LoginInLastFourNonEmptyLines ==
    (epc # "analyze" /\ ~BootSeen /\ ~PromptSeen) =>
        (detected = StageLogin <=> LoginInLastFourMemo[rxText])

\* the bytes of a text that are not white space
NonWhitespace(text) ==
    Cardinality({k \in 1..Len(text) : text[k] \notin {" ", "\t", "\n", "\r", "\f", "VT"}})

\* C29: an attempt is a success exactly when it read at least 10 bytes and
\* the normalized text of them has more than 5 bytes that are not white
\* space.
C29_SuccessHeuristic ==
    bpc = "attempted" =>
        (pr.Success <=> /\ Len(pr.RawData) >= 10
                        /\ NonWhitespace(Normalize(pr.CleanedData)) > 5)

\* C30: the prompt of the Result and of the candidates of a successful
\* ProbePort is the last non-empty line of the normalized buffer, with CR,
\* CRLF and LF all taken as line breaks.
C30_PromptOfNormalizedBuffer ==
    (bpc = "returned" /\ probeResult.Success) =>
        \E prompt \in {ExtractLastPromptLine(Normalize(probeResult.CleanedData))} :
            /\ probeResult.Fingerprint.Prompt = prompt
            /\ \A k \in 1..Len(probeResult.Candidates) :
                   probeResult.Candidates[k].Prompt = prompt

\* neither an IPv4 literal nor a colon-separated MAC literal is in the text
Scrubbed(text) == ~MatchString(ipPattern, text) /\ ~MatchString(macPattern, text)

\* the redacted fields of a console part are free of both
ScrubbedConsole(c) ==
    /\ Scrubbed(c.Fingerprint)
    /\ c.Detail # Nil =>
          /\ Scrubbed(c.Detail.Model)
          /\ Scrubbed(c.Detail.Prompt)
          /\ \A i \in 1..Len(c.Detail.Evidence) : Scrubbed(c.Detail.Evidence[i])

\* a detail with its redacted fields blanked
DetailRest(d) ==
    IF d = Nil THEN d
    ELSE [d EXCEPT !.Model = <<>>, !.Prompt = <<>>, !.Evidence = <<>>]

\* a console part with its redacted fields blanked: what is left are the
\* fields redaction has no business with
ConsoleRest(c) ==
    IF c = Nil THEN c
    ELSE [c EXCEPT !.Fingerprint = <<>>, !.Detail = DetailRest(@)]

\* C21: after a snapshot with a console part is redacted, its fingerprint
\* summary, model, prompt and every evidence entry hold no IPv4 literal and
\* no colon-separated MAC literal; redacting the result again gives the same
\* snapshot; every other field of the console part is as it was, and so is
\* the snapshot that was handed in.
C21_RedactionIdempotentComplete ==
    /\ rspc \in {"once", "done"} =>
          /\ snap = snapGiven
          /\ ConsoleRest(redacted.Console) = ConsoleRest(snapGiven.Console)
          /\ redacted.Console # Nil => ScrubbedConsole(redacted.Console)
    /\ rspc = "done" => redactedAgain = redacted

\* a snapshot whose prompt held both kinds of address, and an address in its
\* evidence, has been redacted twice
C21_Witness ==
    /\ rspc = "done"
    /\ snapGiven.Console # Nil
    /\ snapGiven.Console.Detail # Nil
    /\ MatchString(ipPattern, snapGiven.Console.Detail.Prompt)
    /\ MatchString(macPattern, snapGiven.Console.Detail.Prompt)
    /\ snapGiven.Console.Detail.Evidence # <<>>
    /\ redacted # snapGiven

\* the paths DiscoverPorts returned
ReturnedPaths == {ports[k].Path : k \in 1..Len(ports)}

\* C22: no path DiscoverPorts returns contains, once lower-cased, bluetooth,
\* airpods, wireless, wlan, rfcomm, hci, debug or console, whatever the
\* platform; /dev/ttyUSB0 and /dev/ttyACM0 are returned whenever the serial
\* library reports them.
C22_DiscoverPortsFilter ==
    dpc = "done" =>
        /\ \A p \in ReturnedPaths :
              /\ ~ContainsAny(ToLower(p), bluetoothPatterns)
              /\ ~ContainsAny(ToLower(p), debugPatterns)
        /\ ~portsErr =>
              \A k \in 1..Len(portsList) :
                  portsList[k] \in {<<"/","d","e","v","/","t","t","y","U","S","B","0">>,
                                    <<"/","d","e","v","/","t","t","y","A","C","M","0">>}
                      => portsList[k] \in ReturnedPaths

\* on macOS a Bluetooth port was reported next to /dev/ttyUSB0, and only the
\* latter was returned
C22_Witness ==
    /\ dpc = "done"
    /\ goos = "darwin"
    /\ \E k \in 1..Len(portsList) :
          Contains(portsList[k], <<"B","l","u","e","t","o","o","t","h">>)
    /\ ReturnedPaths = {<<"/","d","e","v","/","t","t","y","U","S","B","0">>}

\* the least whole number of tens that covers ms
CeilTenths(ms) == (ms + 9) \div 10

\* the mode the session was opened with
OpenedMode ==
    Mode(config.Baud, config.DataBits, ParityOf(config.Parity),
         StopBitsOf(config.StopBits))

\* the callers between the two SetMode calls of emulateBreak
Breaking == {c \in Callers : cpc[c] = "emulateBreak.restore"}

\* C31: when emulateBreak is about to restore the mode, what it has put on
\* the wire is exactly ceil(duration_ms / 10) NUL bytes, all of them at a
\* tenth of the session's baud.
C31_BreakNulCount ==
    \A c \in Breaking :
        /\ wire # <<>>
        /\ wire[Len(wire)].by = "emulateBreak"
        /\ wire[Len(wire)].baud = config.Baud \div 10
        /\ wire[Len(wire)].data = [k \in 1..CeilTenths(cop[c].ms) |-> "NUL"]

\* C32: once a SendBreak has returned without error and no other is under
\* way, the port's mode is the one the session was opened with: baud, data
\* bits, parity and stop bits.
C32_BreakRestoresMode ==
    (cret.op = "SendBreak" /\ cret.err = NoError /\ Breaking = {}) =>
        port.mode = OpenedMode

\* a SendBreak of c returns in this step from where it stood at pc
BreakReturns(c, pc) == cpc[c] = pc /\ cpc'[c] = "idle"

\* C33: a SendBreak that returns without having lowered the baud returns an
\* error, has written no NUL byte and leaves the port's mode alone; one that
\* returns without the baud restored returns an error, and one that returns
\* an error from the restore leaves the session open and the port at a tenth
\* of the baud.
C33_BreakFailures ==
    [][\A c \in Callers :
          /\ BreakReturns(c, "SendBreak.Lock") =>
                /\ cret'.err # NoError
                /\ wire' = wire
                /\ port'.mode = port.mode
          /\ BreakReturns(c, "emulateBreak.restore") =>
                /\ port'.mode.BaudRate # config.Baud => cret'.err # NoError
                /\ cret'.err # NoError =>
                      /\ port'.open /\ ~ctxDone'
                      /\ port'.mode.BaudRate = config.Baud \div 10]_vars

\* a SendBreak on a session of 115200 baud has returned the error of the
\* restore, with its NUL bytes on the wire
C33_Witness ==
    /\ cret.op = "SendBreak"
    /\ cret.err = "set mode error"
    /\ config.Baud = 115200
    /\ port.mode.BaudRate = 11520
    /\ \E k \in 1..Len(wire) : wire[k].by = "emulateBreak"

\* C34: the reader's step that follows a failed OS read, EOF or not, offers
\* the error to the error channel (it is dropped when the channel is full)
\* and goes back to the top of the loop; the reader returns only when the
\* session context is done.
C34_ReaderOffersErrors ==
    [][/\ (rpc = "err" /\ rpc' # "err") =>
              /\ errChan' = TrySend(errChan, "read error", ErrChanCap)
              /\ rpc' = "Read"
       /\ (rpc # "return" /\ rpc' = "return") => ctxDone]_vars

\* C35: once a Close has returned, no step writes to either transcript,
\* advances bytesRead, or puts a chunk on the read channel or on a watcher's
\* channel.
C35_QuietAfterClose ==
    [][closeRets # <<>> =>
          /\ logFile'.data = logFile.data
          /\ logFileTxt'.data = logFileTxt.data
          /\ bytesRead' = bytesRead
          /\ Len(readChan') <= Len(readChan)
          /\ \A c \in Callers : Len(wchan'[c]) <= Len(wchan[c])]_vars

\* the ReadUntil of MaybeProbe has been called and has not reached a return
\* statement
ProbeReading ==
    /\ cop[Prober].op = "ReadUntil"
    /\ cpc[Prober] \in {"ReadUntil.register", "ReadUntil.select"}

\* C36: when the reader broadcasts a chunk it read after the ReadUntil of
\* MaybeProbe was called (and so after its Write returned), and the buffer of
\* that call's watcher has room, the chunk is on the watcher's channel
\* afterwards.
C36_NoProbeResponseLost ==
    [][(/\ rpc = "broadcast" /\ rpc' = "Read"
        /\ ProbeReading
        /\ rdata.id > cop[Prober].since
        /\ Len(wchan[Prober]) < WatcherCap)
       => wchan'[Prober] = Append(wchan[Prober], rdata)]_vars

Watching == {c \in Callers : cpc[c] \in {"ReadUntil.select", "ReadUntil.unregister"}}

\* C38: the watcher set holds exactly the watchers of the ReadUntil calls
\* between their registration and their deferred removal, a call that is
\* about to register comes with an empty channel of its own, and a caller
\* outside ReadUntil has no channel the reader could still send to; with
\* every ReadUntil completed the set is empty.
C38_WatchersOfCallsInProgress ==
    /\ watchers = Watching
    /\ \A c \in Callers :
          c \notin Watching => wchan[c] = <<>> /\ wgot[c] = <<>>

\* after a read, a ReadUntil has returned on a closed session, every caller
\* is idle and nobody is left in the set
C38_Witness ==
    /\ cret.op = "ReadUntil"
    /\ cret.err = "session closed"
    /\ \A c \in Callers : cpc[c] = "idle"
    /\ osReads # <<>>
    /\ watchers = {}

\* the one evidence entry of c names a prompt pattern: of the three lists of
\* its signature only the prompt list fired
PromptOnly(c) ==
    /\ Len(c.Evidence) = 1
    /\ \E k \in 1..N :
          \E j \in 1..Len(signatureRegistry[k].Prompt) :
              c.Evidence[1] = "prompt: " \o signatureRegistry[k].Prompt[j].Label

\* C39: every registered weight is 0.05 or 0.10, and a candidate of Analyze
\* for which only the prompt list fired has a prob of at most 0.45, so
\* MaybeProbe returns for it without a call to the session.
C39_PromptOnlyNeverProbed ==
    /\ \A k \in 1..N : signatureRegistry[k].Weight \in {5, 10}
    /\ PromptOnly(cand) =>
          /\ cand.Prob <= 45
          /\ ppc = "done" => sessCalls = <<>> /\ ret.upd = <<>>

\* MaybeProbe has turned down a prompt-only candidate of prob 0.40 that
\* passes every other check: a session, a probe, the prompt stage, the guard
C39_Witness ==
    /\ ppc = "done"
    /\ PromptOnly(cand)
    /\ cand.Prob = 40
    /\ ~sessNil
    /\ cand.NextSafeProbe # NilProbe
    /\ cand.stage = StagePrompt
    /\ GuardAllows(cand.NextSafeProbe, cand)
    /\ sessCalls = <<>>

\* C40: ProbePort has a handle on the port only inside one attempt, between
\* its serial.Open and its return: none while the loop is between attempts,
\* so none is open when the next baud is opened, and none once ProbePort has
\* returned.
C40_OneHandleAtMost ==
    /\ bpc \in {"loop", "attempted", "returned"} => ~serialPort.open
    /\ serialPort.open =>
          /\ attempts # <<>>
          /\ attempts[Len(attempts)].opened
          /\ serialPort.baud = attempts[Len(attempts)].baud

\* ProbePort has returned after a second attempt that opened the port as the
\* first had done, on a context that was cancelled on the way
C40_Witness ==
    /\ bpc = "returned"
    /\ Len(attempts) >= 2
    /\ attempts[1].opened
    /\ attempts[2].opened
    /\ probeCtx.done /\ ~probeCtx.atStart
    /\ ~serialPort.open

====
